---------------------------- MODULE Spec2Model ----------------------------
(***************************************************************************)
(* Model of sideload.py: the package engine (Package, PackageInstaller),   *)
(* the management list (InstalledApp, InstalledAppsDialog) and the window  *)
(* workflow that runs the engine on worker threads (InstallerWindow).      *)
(*                                                                         *)
(* Text is modelled at character level: a Python str is a sequence of      *)
(* one-character strings, a path is a str with "/" separators, a text      *)
(* file is a sequence of lines.  Directory listings are sequences: their   *)
(* order is the order the operating system returns entries in.             *)
(***************************************************************************)
EXTENDS Integers, Sequences, FiniteSets, TLC

-----------------------------------------------------------------------------
(* Bounds of the model *)

\* longest stem put in front of a suffix when file names are enumerated
MaxStemLen == 2
\* engine calls made in one run of the engine specification
MaxOps == 2
\* packages loaded in one run of the window specification
MaxLoads == 2

\* clicks on the install button in one run of the window
MaxClicks == 1

\* icon files in one tar.gz package
MaxIcons == 3

\* longest application name enumerated
MaxNameLen == 2

\* the lines of a desktop entry after its header and name
MaxEntryLines == 2

-----------------------------------------------------------------------------
(* Python str operations *)

\* str.lower() on one character (the ASCII letters the model uses)
LowerChar(c) ==
    CASE c = "A" -> "a" [] c = "B" -> "b" [] c = "D" -> "d" [] c = "E" -> "e"
      [] c = "G" -> "g" [] c = "R" -> "r" [] c = "T" -> "t" [] c = "Z" -> "z"
      [] OTHER -> c

\* str.lower()
Lower(s) == [i \in 1..Len(s) |-> LowerChar(s[i])]

\* str.replace(' ', '-')
SpaceToHyphen(s) == [i \in 1..Len(s) |-> IF s[i] = " " THEN "-" ELSE s[i]]

\* s[i:j] with 1-based inclusive bounds, empty when i > j
Slice(s, i, j) == IF i > j THEN <<>> ELSE SubSeq(s, i, j)

\* str.startswith
StartsWith(s, p) == Len(p) <= Len(s) /\ SubSeq(s, 1, Len(p)) = p

\* str.endswith
EndsWith(s, p) == Len(p) <= Len(s) /\ SubSeq(s, Len(s) - Len(p) + 1, Len(s)) = p

\* the positions at which sub occurs in s
Occurrences(s, sub) ==
    {i \in 1..(Len(s) - Len(sub) + 1) : SubSeq(s, i, i + Len(sub) - 1) = sub}

\* sub in s   (the empty string is in every string)
Contains(s, sub) == Len(sub) = 0 \/ Occurrences(s, sub) # {}

\* the smallest element of a non-empty set of integers
Min(S) == CHOOSE x \in S : \A y \in S : x <= y

\* the largest element of a non-empty set of integers
Max(S) == CHOOSE x \in S : \A y \in S : x >= y

\* str.find(c) for a one-character c: first position, 0 when absent
Find(s, c) == LET P == {i \in 1..Len(s) : s[i] = c} IN IF P = {} THEN 0 ELSE Min(P)

\* str.rfind(c): last position, 0 when absent
RFind(s, c) == LET P == {i \in 1..Len(s) : s[i] = c} IN IF P = {} THEN 0 ELSE Max(P)

\* str.split(c)[0]
SplitFirst(s, c) == IF Find(s, c) = 0 THEN s ELSE Slice(s, 1, Find(s, c) - 1)

\* everything after the first c ("" when c is absent)
AfterFirst(s, c) == IF Find(s, c) = 0 THEN <<>> ELSE Slice(s, Find(s, c) + 1, Len(s))

\* str.split(c): the list of fields
RECURSIVE Split(_, _)
Split(s, c) ==
    IF Find(s, c) = 0 THEN <<s>>
    ELSE <<Slice(s, 1, Find(s, c) - 1)>> \o Split(AfterFirst(s, c), c)

\* str.strip() for the blank the model uses
RECURSIVE Strip(_)
Strip(s) ==
    IF Len(s) > 0 /\ s[1] = " " THEN Strip(Tail(s))
    ELSE IF Len(s) > 0 /\ s[Len(s)] = " " THEN Strip(SubSeq(s, 1, Len(s) - 1))
    ELSE s

\* str.replace(old, new) for a non-empty old, leftmost occurrences first
RECURSIVE Replace(_, _, _)
Replace(s, old, new) ==
    IF Occurrences(s, old) = {} THEN s
    ELSE LET i == Min(Occurrences(s, old))
         IN  Slice(s, 1, i - 1) \o new \o Replace(Slice(s, i + Len(old), Len(s)), old, new)

\* the concatenation of a list of strings
RECURSIVE Concat(_)
Concat(ss) == IF ss = <<>> THEN <<>> ELSE Head(ss) \o Concat(Tail(ss))

\* sep.join(ss)
RECURSIVE Join(_, _)
Join(ss, sep) ==
    IF ss = <<>> THEN <<>>
    ELSE IF Len(ss) = 1 THEN ss[1]
    ELSE ss[1] \o sep \o Join(Tail(ss), sep)

\* the elements of list xs at the positions in I, in order
SubList(xs, I) ==
    LET F[k \in 0..Len(xs)] ==
            IF k = 0 THEN <<>>
            ELSE F[k - 1] \o (IF k \in I THEN <<xs[k]>> ELSE <<>>)
    IN  F[Len(xs)]

\* the elements of a list as a set
Range(xs) == {xs[i] : i \in 1..Len(xs)}

\* all strings over alphabet A of length at most n
StringsUpTo(A, n) == UNION {[1..k -> A] : k \in 0..n}

-----------------------------------------------------------------------------
(* pathlib *)

\* PurePath.name: the last component
BaseName(p) == Slice(p, RFind(p, "/") + 1, Len(p))

\* PurePath.parent ("" for a single component)
Parent(p) == Slice(p, 1, RFind(p, "/") - 1)

\* PurePath.suffix: from the last dot, unless the dot leads or ends the name
Suffix(p) ==
    LET n == BaseName(p)
        i == RFind(n, ".")
    IN  IF 1 < i /\ i < Len(n) THEN Slice(n, i, Len(n)) ELSE <<>>

\* PurePath.stem: the name without its suffix
Stem(p) ==
    LET n == BaseName(p)
        i == RFind(n, ".")
    IN  IF 1 < i /\ i < Len(n) THEN Slice(n, 1, i - 1) ELSE n

\* base / name: joining with the empty string gives base itself
PathJoin(base, name) ==
    IF name = <<>> THEN base
    ELSE IF base = <<>> THEN name
    ELSE base \o <<"/">> \o name

\* p lies strictly below directory d
Under(p, d) == IF d = <<>> THEN p # <<>> ELSE StartsWith(p, d \o <<"/">>)

\* p relative to directory d (p lies below d)
RelativeTo(p, d) == IF d = <<>> THEN p ELSE Slice(p, Len(d) + 2, Len(p))

-----------------------------------------------------------------------------
(* Literals *)

\* Optional[Path] = None
NoPath == <<>>

DotDeb == <<".", "d", "e", "b">>
DotTarGz == <<".", "t", "a", "r", ".", "g", "z">>
DotTgz == <<".", "t", "g", "z">>
DotDesktop == <<".", "d", "e", "s", "k", "t", "o", "p">>
DotPng == <<".", "p", "n", "g">>
DotSvg == <<".", "s", "v", "g">>
DotIco == <<".", "i", "c", "o">>
DotXpm == <<".", "x", "p", "m">>
DotSo == <<".", "s", "o">>
DotA == <<".", "a">>
DotSh == <<".", "s", "h">>
DotJpg == <<".", "j", "p", "g">>
DotTxt == <<".", "t", "x", "t">>
DotMd == <<".", "m", "d">>
UrlHandler == <<"u", "r", "l", "-", "h", "a", "n", "d", "l", "e", "r">>
DataTar == <<"d", "a", "t", "a", ".", "t", "a", "r">>
NameEq == <<"N", "a", "m", "e", "=">>
CommentEq == <<"C", "o", "m", "m", "e", "n", "t", "=">>
ExecEq == <<"E", "x", "e", "c", "=">>
IconEq == <<"I", "c", "o", "n", "=">>
OptDir == <<"o", "p", "t">>
UsrLib == <<"u", "s", "r", "/", "l", "i", "b">>
UsrShare == <<"u", "s", "r", "/", "s", "h", "a", "r", "e">>
UsrBin == <<"u", "s", "r", "/", "b", "i", "n">>
Pixmaps == <<"u", "s", "r", "/", "s", "h", "a", "r", "e", "/", "p", "i", "x", "m", "a", "p", "s">>
ShareIcons == <<"u", "s", "r", "/", "s", "h", "a", "r", "e", "/", "i", "c", "o", "n", "s">>
KiroName == <<"k", "i", "r", "o", "-", "a", "c", "c", "o", "u", "n", "t", "-",
              "m", "a", "n", "a", "g", "e", "r">>

-----------------------------------------------------------------------------
(* Directory trees *)

\* A tree is the listing of a directory: a sequence of entries, each with its
\* path relative to the directory, in the order the file system lists them
\* (a directory before what it holds).
\*   kind  "file", "dir" or "link"
\*   x     os.access(path, os.X_OK)
\*   utf8  the bytes decode as UTF-8
\*   body  the lines of a text file; the target of a link; a tag for other data
FileEntry(path, x, body) ==
    [path |-> path, kind |-> "file", x |-> x, utf8 |-> TRUE, body |-> body]

DirEntry(path) ==
    [path |-> path, kind |-> "dir", x |-> TRUE, utf8 |-> TRUE, body |-> <<>>]

\* positions of the entries of tree t below directory d (Path.rglob('*'))
BelowIdx(t, d) == {i \in 1..Len(t) : Under(t[i].path, d)}

\* positions of the entries directly in directory d (Path.iterdir)
ChildIdx(t, d) == {i \in BelowIdx(t, d) : Parent(t[i].path) = d}

\* Path.exists() inside a tree ("" is the root of the tree)
TreeExists(t, p) == p = <<>> \/ \E i \in 1..Len(t) : t[i].path = p

\* Path.is_dir() inside a tree
TreeIsDir(t, p) == p = <<>> \/ \E i \in 1..Len(t) : t[i].path = p /\ t[i].kind = "dir"

-----------------------------------------------------------------------------
(* class Package *)

\* An archive file on disk, as the extraction tools see it:
\*   file    the file name
\*   dpkg    "ok", "fail" (non-zero exit) or "missing" (no dpkg-deb program)
\*   ar      ar x succeeds
\*   member  the ar container holds a data.tar* member
\*   tar     tar succeeds
\*   tree    the file system tree packed in the archive
\*   probe   what running the main executable with --help does
Archive(file, dpkg, ar, member, tar, tree, probe) ==
    [file |-> file, dpkg |-> dpkg, ar |-> ar, member |-> member, tar |-> tar,
     tree |-> tree, probe |-> probe]

\* a classification that accepts the suffix anywhere in the name
DetectTypeAnywhere(path) ==
    LET name == Lower(BaseName(path))
    IN  IF Contains(name, DotDeb) THEN "DEB"
        ELSE IF Contains(name, DotTarGz) \/ Contains(name, DotTgz) THEN "TAR_GZ"
        ELSE "UNKNOWN"

\* Package._detect_type
DetectType(path) ==
    LET name == Lower(BaseName(path))
    IN  IF EndsWith(name, DotDeb) THEN "DEB"
        ELSE IF EndsWith(name, DotTarGz) \/ EndsWith(name, DotTgz) THEN "TAR_GZ"
        ELSE "UNKNOWN"

\* Package(path): the dataclass defaults, then __post_init__
NewPackage(arc) ==
    [arc |-> arc, path |-> arc.file, name |-> <<>>, version |-> <<>>,
     description |-> <<>>, icon |-> NoPath, desktop_file |-> NoPath,
     extract_dir |-> NoPath, package_type |-> DetectType(arc.file)]

\* the members ar x leaves in the scratch directory
ArMembers(arc) ==
    << FileEntry(<<"d", "e", "b", "i", "a", "n", "-", "b", "i", "n", "a", "r", "y">>,
                 FALSE, <<>>),
       FileEntry(<<"c", "o", "n", "t", "r", "o", "l", ".", "t", "a", "r">>, FALSE, <<>>) >>
    \o (IF arc.member THEN <<FileEntry(DataTar \o <<".", "x", "z">>, FALSE, <<>>)>> ELSE <<>>)

\* Package._parse_desktop_file: the last Name= and Comment= lines win; a file
\* that cannot be opened or decoded changes nothing
ParseDesktopFile(pkg, e) ==
    IF e.kind = "dir" \/ ~e.utf8 THEN pkg
    ELSE LET N == {i \in 1..Len(e.body) : StartsWith(e.body[i], NameEq)}
             C == {i \in 1..Len(e.body) :
                       ~StartsWith(e.body[i], NameEq) /\ StartsWith(e.body[i], CommentEq)}
         IN  [pkg EXCEPT
                !.name = IF N = {} THEN @ ELSE Strip(AfterFirst(e.body[Max(N)], "=")),
                !.description =
                    IF C = {} THEN @ ELSE Strip(AfterFirst(e.body[Max(C)], "="))]

\* the glob patterns of Package._find_icon, relative to search directory d
IconPatternIdx(t, d, k) ==
    CASE k = 1 -> {i \in BelowIdx(t, d) :
                     /\ EndsWith(BaseName(t[i].path), DotPng)
                     /\ Under(Parent(t[i].path), d)
                     /\ StartsWith(BaseName(Parent(t[i].path)), <<"2", "5", "6">>)}
      [] k = 2 -> {i \in BelowIdx(t, d) :
                     /\ EndsWith(BaseName(t[i].path), DotPng)
                     /\ Under(Parent(t[i].path), d)
                     /\ StartsWith(BaseName(Parent(t[i].path)), <<"1", "2", "8">>)}
      [] k = 3 -> {i \in BelowIdx(t, d) : EndsWith(BaseName(t[i].path), DotPng)}
      [] OTHER -> {i \in BelowIdx(t, d) : EndsWith(BaseName(t[i].path), DotSvg)}

\* Package._find_icon: pixmaps before icons, and in each the first pattern
\* that matches anything; its first match
FindIcon(t) ==
    LET dirs == <<Pixmaps, ShareIcons>>
        Hits == {h \in (1..2) \X (1..4) :
                     TreeExists(t, dirs[h[1]]) /\ IconPatternIdx(t, dirs[h[1]], h[2]) # {}}
        best == CHOOSE h \in Hits : \A g \in Hits :
                     h[1] < g[1] \/ (h[1] = g[1] /\ h[2] <= g[2])
    IN  IF Hits = {} THEN NoPath
        ELSE t[Min(IconPatternIdx(t, dirs[best[1]], best[2]))].path

\* Package._parse_deb_info
ParseDebInfo(pkg, t) ==
    LET parts == Split(Stem(pkg.path), "_")
        D == {i \in 1..Len(t) :
                  /\ EndsWith(BaseName(t[i].path), DotDesktop)
                  /\ ~Contains(Lower(BaseName(t[i].path)), UrlHandler)}
        p1 == [pkg EXCEPT !.name = parts[1],
                          !.version = IF Len(parts) > 1 THEN parts[2] ELSE <<>>]
        p2 == IF D = {} THEN p1
              ELSE ParseDesktopFile([p1 EXCEPT !.desktop_file = t[Min(D)].path], t[Min(D)])
    IN  [p2 EXCEPT !.icon = FindIcon(t)]

\* str.isdigit() on one character
IsDigit(c) == c \in {"0", "1", "2", "3", "4", "5", "6", "7", "8", "9"}

\* the size tokens of the icon score, larger first, with their values
SizeTokens == << <<"2", "5", "6">>, <<"1", "2", "8">>, <<"6", "4">>, <<"4", "8">> >>

SizeValues == <<256, 128, 64, 48>>

\* score() of Package._find_icon_deep, for the icon at relative path p of the
\* scratch directory tmp
IconScore(pkg, tmp, p) ==
    LET name == Lower(BaseName(p))
        path_str == Lower(PathJoin(tmp, p))
        S == {k \in 1..4 : Contains(path_str, SizeTokens[k])}
    IN  (IF Contains(name, <<"i", "c", "o", "n">>) \/ Contains(name, <<"l", "o", "g", "o">>)
            THEN 100 ELSE 0)
      + (IF Contains(name, Lower(pkg.name)) THEN 50 ELSE 0)
      + (IF S = {} THEN 0 ELSE SizeValues[Min(S)])
      + (IF Suffix(p) = DotPng THEN 10 ELSE 0)

\* all_icons of Package._find_icon_deep: every png of the tree in listing
\* order, then every svg, ico and xpm
AllIcons(t) ==
    LET exts == <<DotPng, DotSvg, DotIco, DotXpm>>
        ByExt(k) == SubList(t, {i \in 1..Len(t) : EndsWith(BaseName(t[i].path), exts[k])})
    IN  ByExt(1) \o ByExt(2) \o ByExt(3) \o ByExt(4)

\* s without its element at position m
DropAt(s, m) == SubList(s, (1..Len(s)) \ {m})

RECURSIVE SortDescending(_, _)
\* list.sort(key=..., reverse=True) on s, K being the keys of its elements:
\* larger keys first, elements of equal key in the order they had (the sort
\* is stable)
SortDescending(s, K) ==
    IF s = <<>> THEN <<>>
    ELSE LET m == Min({i \in 1..Len(s) : \A j \in 1..Len(s) : K[j] <= K[i]})
         IN  <<s[m]>> \o SortDescending(DropAt(s, m), DropAt(K, m))

\* the scores of the icons, in their order
IconScores(pkg, tmp, icons) == [i \in 1..Len(icons) |-> IconScore(pkg, tmp, icons[i].path)]

\* a selection that takes the last element of the sorted list
FindIconDeepLast(pkg, tmp, t) ==
    LET sorted == SortDescending(AllIcons(t), IconScores(pkg, tmp, AllIcons(t)))
    IN  IF sorted = <<>> THEN pkg ELSE [pkg EXCEPT !.icon = sorted[Len(sorted)].path]

\* Package._find_icon_deep: sort all_icons by score, larger first, and take
\* the first
FindIconDeep(pkg, tmp, t) ==
    LET sorted == SortDescending(AllIcons(t), IconScores(pkg, tmp, AllIcons(t)))
    IN  IF sorted = <<>> THEN pkg ELSE [pkg EXCEPT !.icon = sorted[1].path]

\* Package._parse_targz_info (the description's fixed suffix is written " app")
ParseTargzInfo(pkg, tmp, t) ==
    LET name == Replace(Replace(BaseName(pkg.path), DotTarGz, <<>>), DotTgz, <<>>)
        parts == Split(name, "-")
        executables == SubList(t, {i \in 1..Len(t) : t[i].kind = "file" /\ t[i].x})
        V == {i \in 1..Len(parts) : parts[i] # <<>> /\ IsDigit(parts[i][1])}
        nm == IF Len(executables) = 1 THEN Stem(executables[1].path) ELSE parts[1]
        p1 == [pkg EXCEPT !.name = nm,
                          !.version = IF V = {} THEN @ ELSE parts[Min(V)],
                          !.description = nm \o <<" ", "a", "p", "p">>]
    IN  FindIconDeep(p1, tmp, t)

\* the outcome of Package.extract():
\*   pkg    the Package afterwards
\*   ok     the value returned
\*   tree   what the scratch directory holds afterwards
\*   tools  the external programs extract() ran or tried to run, in order
ExtractOutcome(pkg, ok, tree, tools) ==
    [pkg |-> pkg, ok |-> ok, tree |-> tree, tools |-> tools]

\* Package._extract_deb inside the try of Package.extract: dpkg-deb, and on a
\* non-zero exit ar x followed by tar on the first data.tar* member.  A
\* missing program or a failing checked call raises, and extract returns False.
\* dpkg-deb that fails is taken to have unpacked nothing.
ExtractDeb(pkg, tmp) ==
    LET arc == pkg.arc
    IN  IF arc.dpkg = "missing" THEN ExtractOutcome(pkg, FALSE, <<>>, <<"dpkg-deb">>)
        ELSE IF arc.dpkg = "ok"
            THEN ExtractOutcome(ParseDebInfo(pkg, arc.tree), TRUE, arc.tree, <<"dpkg-deb">>)
        ELSE IF ~arc.ar THEN ExtractOutcome(pkg, FALSE, <<>>, <<"dpkg-deb", "ar">>)
        ELSE IF ~arc.member
            THEN ExtractOutcome(ParseDebInfo(pkg, ArMembers(arc)), TRUE, ArMembers(arc),
                                <<"dpkg-deb", "ar">>)
        ELSE IF ~arc.tar
            THEN ExtractOutcome(pkg, FALSE, ArMembers(arc), <<"dpkg-deb", "ar", "tar">>)
        ELSE ExtractOutcome(ParseDebInfo(pkg, ArMembers(arc) \o arc.tree), TRUE,
                            ArMembers(arc) \o arc.tree, <<"dpkg-deb", "ar", "tar">>)

\* Package._extract_targz inside the try of Package.extract
ExtractTargz(pkg, tmp) ==
    IF ~pkg.arc.tar THEN ExtractOutcome(pkg, FALSE, <<>>, <<"tar">>)
    ELSE ExtractOutcome(ParseTargzInfo(pkg, tmp, pkg.arc.tree), TRUE, pkg.arc.tree, <<"tar">>)

\* Package.extract: tmp is the directory tempfile.mkdtemp returned
Extract(pkg, tmp) ==
    LET p == [pkg EXCEPT !.extract_dir = tmp]
    IN  IF p.package_type = "DEB" THEN ExtractDeb(p, tmp)
        ELSE IF p.package_type = "TAR_GZ" THEN ExtractTargz(p, tmp)
        ELSE ExtractOutcome(p, FALSE, <<>>, <<>>)

-----------------------------------------------------------------------------
(* The user's file system *)

\* The file system under the home directory is a function from absolute paths
\* (written from "~") to nodes; every directory that exists has a node.
FileNode(x, body) == [kind |-> "file", x |-> x, utf8 |-> TRUE, body |-> body]

DirNode == [kind |-> "dir", x |-> TRUE, utf8 |-> TRUE, body |-> <<>>]

LinkNode(target) == [kind |-> "link", x |-> TRUE, utf8 |-> TRUE, body |-> <<target>>]

\* the node a tree entry is copied to
NodeOf(e) == [kind |-> e.kind, x |-> e.x, utf8 |-> e.utf8, body |-> e.body]

\* PackageInstaller.__init__: the fixed per-user locations
install_base == <<"~", "/", ".", "l", "o", "c", "a", "l", "/", "s", "h", "a", "r", "e">>

bin_dir == <<"~", "/", ".", "l", "o", "c", "a", "l", "/", "b", "i", "n">>

icons_dir == PathJoin(install_base, <<"i", "c", "o", "n", "s">>)

apps_dir == PathJoin(install_base, <<"a", "p", "p", "l", "i", "c", "a", "t", "i", "o", "n", "s">>)

\* PackageInstaller._get_desktop_dir
desktop_dir == <<"~", "/", "D", "e", "s", "k", "t", "o", "p">>

\* Path.is_symlink()
IsSymlink(f, p) == p \in DOMAIN f /\ f[p].kind = "link"

\* the path open() and exists() act on: a symbolic link stands for its target
Resolve(f, p) == IF IsSymlink(f, p) THEN f[p].body[1] ELSE p

\* Path.exists(): follows a symbolic link, so a dangling link does not exist
Exists(f, p) == Resolve(f, p) \in DOMAIN f

\* Path.is_dir()
IsDir(f, p) == Exists(f, p) /\ f[Resolve(f, p)].kind = "dir"

\* the paths directly in directory d (Path.iterdir, Path.glob of one level)
Children(f, d) == {p \in DOMAIN f : Under(p, d) /\ Parent(p) = d}

\* removal of path p and everything below it
Without(f, p) == [q \in {r \in DOMAIN f : r # p /\ ~Under(r, p)} |-> f[q]]

\* f with node n at path p
With(f, p, n) == (p :> n) @@ f

\* the entries of tree t below its directory src, as nodes below dst
Copied(t, src, dst) ==
    [q \in {PathJoin(dst, RelativeTo(t[i].path, src)) : i \in BelowIdx(t, src)} |->
        NodeOf(t[CHOOSE i \in BelowIdx(t, src) :
                     PathJoin(dst, RelativeTo(t[i].path, src)) = q])]

\* shutil.copytree(src, dst): dst is created and the tree below src copied in;
\* with merge (dirs_exist_ok) what is already there and not overwritten stays
CopyTree(f, t, src, dst) == Copied(t, src, dst) @@ With(f, dst, DirNode)

\* A run of the installer's code: the file system so far and the exception
\* raised, if any ("" while none is)
Run(f, exc) == [fs |-> f, exc |-> exc]

\* open(p, 'w') / Path.write_text: through a symbolic link the target is
\* written; the directory of the file written must exist
WriteFile(r, p, n) ==
    IF r.exc # "" THEN r
    ELSE LET q == Resolve(r.fs, p)
         IN  IF IsDir(r.fs, q) THEN Run(r.fs, "IsADirectoryError")
             ELSE IF ~IsDir(r.fs, Parent(q)) THEN Run(r.fs, "FileNotFoundError")
             ELSE Run(With(r.fs, q, n), "")

\* Path.unlink(): removes a file or the link itself; a directory raises
Unlink(r, p) ==
    IF r.exc # "" THEN r
    ELSE IF p \notin DOMAIN r.fs THEN Run(r.fs, "FileNotFoundError")
    ELSE IF r.fs[p].kind = "dir" THEN Run(r.fs, "IsADirectoryError")
    ELSE Run(Without(r.fs, p), "")

\* shutil.rmtree(p): p must be a real directory
RmTree(r, p) ==
    IF r.exc # "" THEN r
    ELSE IF p \notin DOMAIN r.fs THEN Run(r.fs, "FileNotFoundError")
    ELSE IF r.fs[p].kind # "dir" THEN Run(r.fs, "NotADirectoryError")
    ELSE Run(Without(r.fs, p), "")

-----------------------------------------------------------------------------
(* class PackageInstaller *)

\* InstallResult
InstallResult(success, message, app_name, executable, via_distrobox) ==
    [success |-> success, message |-> message, app_name |-> app_name,
     executable |-> executable, via_distrobox |-> via_distrobox]

\* the outcome of a method of the installer: the file system afterwards, the
\* exception that left the method ("" when it returned) and the value returned
Outcome(f, exc, result) == [fs |-> f, exc |-> exc, result |-> result, cmds |-> <<>>]

\* the same outcome after the distrobox commands cmds were run, in that order
Ran(o, cmds) == [o EXCEPT !.cmds = cmds]

\* the value of a method that raised
NoResult == InstallResult(FALSE, <<>>, <<>>, NoPath, FALSE)

\* app_name.lower().replace(' ', '-') in _install_deb
DebAppId(app_name) == SpaceToHyphen(Lower(app_name))

\* app_name.lower().replace(' ', '-') in _install_targz
TargzAppId(app_name) == SpaceToHyphen(Lower(app_name))

\* app_name.lower().replace(' ', '-') in _install_distrobox
DistroboxAppId(app_name) == SpaceToHyphen(Lower(app_name))

\* an id that is the name in lower case, spaces kept
UninstallAppIdLower(app_name) == Lower(app_name)

\* app_name.lower().replace(' ', '-') in uninstall
UninstallAppId(app_name) == SpaceToHyphen(Lower(app_name))

\* a search that tries each name in usr/lib and usr/share before the next name
FindSourceDirByName(pkg, t) ==
    LET app_name_lower == DebAppId(pkg.name)
        OptSubdirs == {i \in ChildIdx(t, OptDir) : t[i].kind = "dir"}
        search_dirs == <<UsrLib, UsrShare>>
        search_names == <<app_name_lower, pkg.name, Split(Stem(pkg.path), "_")[1]>>
        Hits == {h \in (1..2) \X (1..3) :
                     /\ TreeExists(t, search_dirs[h[1]])
                     /\ TreeIsDir(t, PathJoin(search_dirs[h[1]], search_names[h[2]]))}
        best == CHOOSE h \in Hits : \A g \in Hits :
                     h[2] < g[2] \/ (h[2] = g[2] /\ h[1] <= g[1])
    IN  IF TreeExists(t, OptDir) /\ ~TreeIsDir(t, OptDir)
            THEN [exc |-> "NotADirectoryError", src |-> <<>>, mode |-> "dir"]
        ELSE IF OptSubdirs # {}
            THEN [exc |-> "", src |-> <<t[Min(OptSubdirs)].path>>, mode |-> "dir"]
        ELSE IF Hits # {}
            THEN [exc |-> "", mode |-> "dir",
                  src |-> <<PathJoin(search_dirs[best[1]], search_names[best[2]])>>]
        ELSE IF TreeExists(t, UsrBin) /\ ~TreeIsDir(t, UsrBin)
            THEN [exc |-> "NotADirectoryError", src |-> <<>>, mode |-> "dir"]
        ELSE IF TreeExists(t, UsrBin) /\ ChildIdx(t, UsrBin) # {}
            THEN [exc |-> "", src |-> <<UsrBin>>, mode |-> "bin"]
        ELSE [exc |-> "", src |-> <<>>, mode |-> "dir"]

\* step 1 of _install_deb: the payload directory, by priority opt, usr/lib and
\* usr/share by name, usr/bin.  src is empty when none is found.
FindSourceDir(pkg, t) ==
    LET app_name_lower == DebAppId(pkg.name)
        OptSubdirs == {i \in ChildIdx(t, OptDir) : t[i].kind = "dir"}
        search_dirs == <<UsrLib, UsrShare>>
        search_names == <<app_name_lower, pkg.name, Split(Stem(pkg.path), "_")[1]>>
        Hits == {h \in (1..2) \X (1..3) :
                     /\ TreeExists(t, search_dirs[h[1]])
                     /\ TreeIsDir(t, PathJoin(search_dirs[h[1]], search_names[h[2]]))}
        best == CHOOSE h \in Hits : \A g \in Hits :
                     h[1] < g[1] \/ (h[1] = g[1] /\ h[2] <= g[2])
    IN  IF TreeExists(t, OptDir) /\ ~TreeIsDir(t, OptDir)
            THEN [exc |-> "NotADirectoryError", src |-> <<>>, mode |-> "dir"]
        ELSE IF OptSubdirs # {}
            THEN [exc |-> "", src |-> <<t[Min(OptSubdirs)].path>>, mode |-> "dir"]
        ELSE IF Hits # {}
            THEN [exc |-> "", mode |-> "dir",
                  src |-> <<PathJoin(search_dirs[best[1]], search_names[best[2]])>>]
        ELSE IF TreeExists(t, UsrBin) /\ ~TreeIsDir(t, UsrBin)
            THEN [exc |-> "NotADirectoryError", src |-> <<>>, mode |-> "dir"]
        ELSE IF TreeExists(t, UsrBin) /\ ChildIdx(t, UsrBin) # {}
            THEN [exc |-> "", src |-> <<UsrBin>>, mode |-> "bin"]
        ELSE [exc |-> "", src |-> <<>>, mode |-> "dir"]

\* the suffixes _install_deb does not take for an executable
NotExecutableSuffixes == {DotSo, DotA, DotSh, DotPng, DotSvg, DotJpg, DotTxt, DotMd}

\* _install_deb, mode "dir": the executable among the files copied from src to
\* final_install_dir (none: the empty list)
DirModeExecutable(pkg, t, src, final_install_dir) ==
    LET app_name_lower == DebAppId(pkg.name)
        C == {i \in BelowIdx(t, src) :
                  /\ t[i].kind # "dir" /\ t[i].x
                  /\ Suffix(t[i].path) \notin NotExecutableSuffixes}
        Named == {i \in C : Lower(Stem(t[i].path))
                                \in {app_name_lower, Lower(pkg.name), KiroName}}
        At(i) == PathJoin(final_install_dir, RelativeTo(t[i].path, src))
    IN  IF Named # {} THEN <<At(Min(Named))>>
        ELSE IF C # {} THEN <<At(Min(C))>>
        ELSE <<>>

\* _install_deb, mode "bin": the files of src copied flat into the directory
BinModeCopy(f, t, src, final_install_dir) ==
    LET F == {i \in ChildIdx(t, src) : t[i].kind = "file"}
    IN  [q \in {PathJoin(final_install_dir, BaseName(t[i].path)) : i \in F} |->
            NodeOf(t[CHOOSE i \in F : PathJoin(final_install_dir, BaseName(t[i].path)) = q])]
        @@ With(f, final_install_dir, DirNode)

\* _install_deb, mode "bin": the last copied file named like the app, else the
\* first file of the directory that can be executed
BinModeExecutable(pkg, t, src, final_install_dir) ==
    LET app_name_lower == DebAppId(pkg.name)
        F == {i \in ChildIdx(t, src) : t[i].kind = "file"}
        Named == {i \in F : Lower(Stem(t[i].path)) = app_name_lower}
        X == {i \in F : t[i].x}
        At(i) == PathJoin(final_install_dir, BaseName(t[i].path))
    IN  IF Named # {} THEN <<At(Max(Named))>>
        ELSE IF X # {} THEN <<At(Min(X))>>
        ELSE <<>>

\* step 2 of _install_deb: the old directory removed and the payload copied
CopyPayload(r, t, found, final_install_dir) ==
    IF r.exc # "" \/ found.src = <<>> THEN r
    ELSE LET r1 == IF Exists(r.fs, final_install_dir) THEN RmTree(r, final_install_dir) ELSE r
         IN  IF r1.exc # "" THEN r1
             ELSE IF found.mode = "dir"
                 THEN Run(CopyTree(r1.fs, t, found.src[1], final_install_dir), "")
             ELSE Run(BinModeCopy(r1.fs, t, found.src[1], final_install_dir), "")

\* step 3 of _install_deb: usr/lib of the package copied in as lib/, when the
\* install directory exists and has no lib/ yet; a failing copy is only logged
CopyLibs(r, t, final_install_dir) ==
    LET target_lib_dir == PathJoin(final_install_dir, <<"l", "i", "b">>)
    IN  IF r.exc # "" THEN r
        ELSE IF /\ TreeExists(t, UsrLib) /\ Exists(r.fs, final_install_dir)
                /\ ~Exists(r.fs, target_lib_dir)
                /\ TreeIsDir(t, UsrLib) /\ IsDir(r.fs, final_install_dir)
            THEN Run(CopyTree(r.fs, t, UsrLib, target_lib_dir), "")
        ELSE r

\* the text of the wrapper script for executable_path
WrapperLines(f, final_install_dir, executable_path) ==
    LET lib_paths ==
            (IF Exists(f, PathJoin(final_install_dir, <<"l", "i", "b">>))
                THEN <<PathJoin(final_install_dir, <<"l", "i", "b">>)>> ELSE <<>>)
         \o (IF Exists(f, PathJoin(final_install_dir, UsrLib))
                THEN <<PathJoin(final_install_dir, UsrLib)>> ELSE <<>>)
    IN  << <<"#!/bin/bash">> >>
     \o (IF lib_paths = <<>> THEN <<>>
         ELSE << <<"export LD_LIBRARY_PATH=", "\"">> \o Join(lib_paths, <<":">>)
                 \o <<":", "$LD_LIBRARY_PATH", "\"">> >>)
     \o << <<"exec ", "\"">> \o executable_path \o <<"\"", " ", "\"$@\"">> >>

\* step 4 of _install_deb: the wrapper written and made executable
WriteWrapper(r, app_name_lower, final_install_dir, executable) ==
    IF r.exc # "" \/ executable = <<>> THEN r
    ELSE WriteFile(r, PathJoin(bin_dir, app_name_lower),
                   FileNode(TRUE, WrapperLines(r.fs, final_install_dir, executable[1])))

\* PackageInstaller._install_icon: the destination written, or none; every
\* failure of the copy is swallowed.  An empty name_hint counts as no hint.
InstallIconDest(f, pkg, t, name_hint) ==
    LET I == {i \in 1..Len(t) : t[i].path = pkg.icon}
        dest == IF name_hint # <<>> THEN PathJoin(icons_dir, name_hint \o Suffix(pkg.icon))
                ELSE PathJoin(icons_dir, BaseName(pkg.icon))
    IN  IF pkg.icon = NoPath \/ I = {} THEN NoPath
        ELSE IF t[Min(I)].kind = "dir" THEN NoPath
        ELSE IF WriteFile(Run(f, ""), dest, NodeOf(t[Min(I)])).exc # "" THEN NoPath
        ELSE dest

\* PackageInstaller._install_icon: the file system afterwards
InstallIcon(r, pkg, t, name_hint) ==
    LET dest == InstallIconDest(r.fs, pkg, t, name_hint)
        I == {i \in 1..Len(t) : t[i].path = pkg.icon}
    IN  IF r.exc # "" \/ dest = NoPath THEN r
        ELSE WriteFile(r, dest, NodeOf(t[Min(I)]))

\* str.split(): the fields between runs of blanks
SplitWords(s) ==
    LET parts == Split(s, " ")
    IN  SubList(parts, {i \in 1..Len(parts) : parts[i] # <<>>})

\* a rewriting that drops the arguments of the original command
RewriteLineNoArgs(f, line, executable) ==
    IF StartsWith(line, ExecEq)
    THEN IF executable # <<>>
         THEN ExecEq \o executable[1]
         ELSE Replace(Replace(line, <<"/">> \o UsrShare \o <<"/">>, install_base \o <<"/">>),
                      <<"/">> \o OptDir \o <<"/">>, install_base \o <<"/">>)
    ELSE IF StartsWith(line, IconEq)
    THEN LET icon_name == Strip(AfterFirst(line, "="))
         IN  IF Exists(f, PathJoin(icons_dir, icon_name \o DotPng))
                 THEN IconEq \o PathJoin(icons_dir, icon_name \o DotPng)
             ELSE IF Exists(f, PathJoin(icons_dir, icon_name))
                 THEN IconEq \o PathJoin(icons_dir, icon_name)
             ELSE line
    ELSE line

\* _process_desktop_file: one line of the package's entry rewritten
RewriteLine(f, line, executable) ==
    IF StartsWith(line, ExecEq)
    THEN IF executable # <<>>
         THEN LET exec_cmd == Strip(AfterFirst(line, "="))
                  args == IF Contains(exec_cmd, <<" ">>) THEN Tail(SplitWords(exec_cmd))
                          ELSE <<>>
              IN  Strip(ExecEq \o executable[1] \o <<" ">> \o Join(args, <<" ">>))
         ELSE Replace(Replace(line, <<"/">> \o UsrShare \o <<"/">>, install_base \o <<"/">>),
                      <<"/">> \o OptDir \o <<"/">>, install_base \o <<"/">>)
    ELSE IF StartsWith(line, IconEq)
    THEN LET icon_name == Strip(AfterFirst(line, "="))
         IN  IF Exists(f, PathJoin(icons_dir, icon_name \o DotPng))
                 THEN IconEq \o PathJoin(icons_dir, icon_name \o DotPng)
             ELSE IF Exists(f, PathJoin(icons_dir, icon_name))
                 THEN IconEq \o PathJoin(icons_dir, icon_name)
             ELSE line
    ELSE line

\* the copy of a desktop entry put in the desktop folder, when asked for and
\* the folder exists
MirrorToDesktop(r, file_name, lines, create_desktop) ==
    IF r.exc # "" THEN r
    ELSE IF create_desktop /\ Exists(r.fs, desktop_dir)
        THEN WriteFile(r, PathJoin(desktop_dir, file_name), FileNode(TRUE, lines))
    ELSE r

\* _process_desktop_file once the entry is rewritten: it is written to the
\* applications directory and mirrored to the desktop folder
WriteDesktopEntry(r, file_name, lines, create_desktop) ==
    MirrorToDesktop(WriteFile(r, PathJoin(apps_dir, file_name), FileNode(FALSE, lines)),
                    file_name, lines, create_desktop)

\* _process_desktop_file reading entry e of the package
RewriteEntry(r, e, file_name, executable, create_desktop) ==
    IF e.kind = "dir" THEN Run(r.fs, "IsADirectoryError")
    ELSE IF ~e.utf8 THEN Run(r.fs, "UnicodeDecodeError")
    ELSE WriteDesktopEntry(
             r, file_name,
             [i \in 1..Len(e.body) |-> RewriteLine(r.fs, e.body[i], executable)],
             create_desktop)

\* PackageInstaller._process_desktop_file (gio and update-desktop-database are
\* taken to be installed; their exit codes are not looked at)
ProcessDesktopFile(r, t, src, app_name_lower, executable, create_desktop) ==
    IF r.exc # "" THEN r
    ELSE IF \A i \in 1..Len(t) : t[i].path # src THEN Run(r.fs, "FileNotFoundError")
    ELSE RewriteEntry(r, t[Min({i \in 1..Len(t) : t[i].path = src})], BaseName(src),
                      executable, create_desktop)

\* _install_deb, step 2: the executable of the payload found (none: the
\* empty list)
DebExecutable(pkg, t, found, final_install_dir) ==
    IF found.src = <<>> THEN <<>>
    ELSE IF found.mode = "dir"
        THEN DirModeExecutable(pkg, t, found.src[1], final_install_dir)
    ELSE BinModeExecutable(pkg, t, found.src[1], final_install_dir)

\* the result of an install method after run r of its steps
Finished(r, pkg, app_name_lower, executable_path) ==
    IF r.exc # "" THEN Outcome(r.fs, r.exc, NoResult)
    ELSE Outcome(r.fs, "",
                 InstallResult(TRUE, <<"installed: ">> \o pkg.name, app_name_lower,
                               IF executable_path = <<>> THEN NoPath
                               ELSE executable_path[1], FALSE))

\* _install_deb, step 6: the package's desktop entry, when it has one
DebDesktop(r, pkg, t, app_name_lower, executable_path, create_desktop, add_to_menu) ==
    IF pkg.desktop_file # NoPath /\ add_to_menu
    THEN ProcessDesktopFile(r, t, pkg.desktop_file, app_name_lower, executable_path,
                            create_desktop)
    ELSE r

\* _install_deb, steps 2 to 6 with the payload directory found
DebSteps(pkg, t, create_desktop, add_to_menu, f, found, app_name_lower, final_install_dir, executable_path) ==
    Finished(
        DebDesktop(
            InstallIcon(
                WriteWrapper(
                    CopyLibs(CopyPayload(Run(f, found.exc), t, found, final_install_dir),
                             t, final_install_dir),
                    app_name_lower, final_install_dir, executable_path),
                pkg, t, <<>>),
            pkg, t, app_name_lower, executable_path, create_desktop, add_to_menu),
        pkg, app_name_lower, executable_path)

\* _install_deb with the payload directory found
DebFound(pkg, t, create_desktop, add_to_menu, f, found, app_name_lower, final_install_dir) ==
    DebSteps(pkg, t, create_desktop, add_to_menu, f, found, app_name_lower,
             final_install_dir, DebExecutable(pkg, t, found, final_install_dir))

\* PackageInstaller._install_deb
InstallDeb(pkg, t, create_desktop, add_to_menu, f) ==
    IF pkg.extract_dir = NoPath THEN Outcome(f, "TypeError", NoResult)
    ELSE DebFound(pkg, t, create_desktop, add_to_menu, f, FindSourceDir(pkg, t),
                  DebAppId(pkg.name), PathJoin(install_base, DebAppId(pkg.name)))

\* the words that make an application a server
ServerWords ==
    { <<"s", "e", "r", "v", "e", "r">>, <<"s", "e", "r", "v", "e">>,
      <<"d", "a", "e", "m", "o", "n">>, <<"s", "t", "a", "r", "t">>, <<"s", "t", "o", "p">> }

\* PackageInstaller._detect_server_app: probe is what running the executable
\* with --help did: raised (time-out, cannot be run), or exit code and output
DetectServerApp(probe) ==
    IF probe.raises THEN FALSE
    ELSE \E word \in ServerWords : Contains(Lower(probe.out), word)

\* the name of the launcher script of a server application
LauncherPath(app_name_lower) ==
    PathJoin(bin_dir, app_name_lower \o <<"-", "l", "a", "u", "n", "c", "h", "e", "r">> \o DotSh)

\* the text of the launcher script
LauncherLines(app_name, executable) ==
    << <<"#!/bin/bash">>, <<"echo ">> \o app_name, executable \o <<" ", "server">>,
       <<"read -n 1">> >>

\* an entry that runs the executable whether or not the app is a server
ExecAndTerminalDirect(app_name_lower, executable, is_server, term) ==
    [exec |-> executable, terminal |-> <<"f", "a", "l", "s", "e">>]

\* the Exec= value and Terminal= value of a synthesized entry; term is what
\* _get_terminal_command returned: <<>> or <<program, arguments>>
ExecAndTerminal(app_name_lower, executable, is_server, term) ==
    IF is_server
    THEN IF term # <<>>
         THEN [exec |-> term[1] \o <<" ">>
                        \o (IF term[2] # <<>> THEN Join(term[2], <<" ">>) \o <<" ">> ELSE <<>>)
                        \o LauncherPath(app_name_lower),
               terminal |-> <<"f", "a", "l", "s", "e">>]
         ELSE [exec |-> LauncherPath(app_name_lower), terminal |-> <<"t", "r", "u", "e">>]
    ELSE [exec |-> executable, terminal |-> <<"f", "a", "l", "s", "e">>]

\* the text of a synthesized entry
DesktopContent(app_name, app_name_lower, exec_line, icon_line, terminal) ==
    << <<"[Desktop Entry]">>,
       NameEq \o app_name,
       CommentEq \o app_name \o <<" ", "Application">>,
       <<"G", "e", "n", "e", "r", "i", "c">> \o NameEq \o app_name,
       ExecEq \o exec_line,
       IconEq \o icon_line,
       <<"T", "y", "p", "e", "=", "Application">>,
       <<"S", "t", "a", "r", "t", "u", "p", "N", "o", "t", "i", "f", "y", "=", "false">>,
       <<"S", "t", "a", "r", "t", "u", "p", "W", "M", "C", "l", "a", "s", "s", "=">> \o app_name,
       <<"C", "a", "t", "e", "g", "o", "r", "i", "e", "s", "=", "Utility;">>,
       <<"K", "e", "y", "w", "o", "r", "d", "s", "=">> \o app_name_lower \o <<";">>,
       <<"T", "e", "r", "m", "i", "n", "a", "l", "=">> \o terminal >>

\* _create_desktop_file: the launcher script of a server application
WriteLauncher(r, app_name, app_name_lower, executable, is_server) ==
    IF is_server
    THEN WriteFile(r, LauncherPath(app_name_lower),
                   FileNode(TRUE, LauncherLines(app_name, executable)))
    ELSE r

\* the text of the entry _create_desktop_file writes, et being its Exec= and
\* Terminal= values
SynthesizedEntry(app_name, app_name_lower, icon_path, et) ==
    DesktopContent(app_name, app_name_lower, et.exec,
                   IF icon_path # NoPath THEN icon_path
                   ELSE <<"application-x-executable">>,
                   et.terminal)

\* PackageInstaller._create_desktop_file
CreateDesktopFile(r, app_name, app_name_lower, executable, icon_path, is_server, create_desktop_icon, term) ==
    WriteDesktopEntry(
        WriteLauncher(r, app_name, app_name_lower, executable, is_server),
        app_name_lower \o DotDesktop,
        SynthesizedEntry(app_name, app_name_lower, icon_path,
                         ExecAndTerminal(app_name_lower, executable, is_server, term)),
        create_desktop_icon)

\* a link made at link_path
MakeLink(r, link_path, actual_exec) ==
    IF r.exc # "" THEN r
    ELSE IF ~IsDir(r.fs, Parent(link_path)) THEN Run(r.fs, "FileNotFoundError")
    ELSE Run(With(r.fs, link_path, LinkNode(actual_exec)), "")

\* the link from the executable directory to the installed binary, replacing
\* whatever file or link was there
ReplaceLink(r, link_path, actual_exec) ==
    MakeLink(IF r.exc = "" /\ (Exists(r.fs, link_path) \/ IsSymlink(r.fs, link_path))
             THEN Unlink(r, link_path) ELSE r,
             link_path, actual_exec)

\* _install_targz: the old directory removed and the whole tree copied
TargzCopy(f, t, install_dir) ==
    IF ~Exists(f, install_dir) THEN Run(CopyTree(f, t, <<>>, install_dir), "")
    ELSE IF install_dir \notin DOMAIN f THEN Run(f, "FileNotFoundError")
    ELSE IF f[install_dir].kind # "dir" THEN Run(f, "NotADirectoryError")
    ELSE Run(CopyTree(Without(f, install_dir), t, <<>>, install_dir), "")

\* _install_targz: the entry in the menu and the result, after run r that
\* installed the icon at icon_path (or nowhere)
TargzFinish(r, pkg, app_name_lower, actual_exec, icon_path, create_desktop, add_to_menu, term) ==
    Finished(IF add_to_menu
              THEN CreateDesktopFile(r, pkg.name, app_name_lower, actual_exec, icon_path,
                                     DetectServerApp(pkg.arc.probe), create_desktop, term)
              ELSE r,
              pkg, app_name_lower, <<actual_exec>>)

\* _install_targz: the icon, after run r that made the link
TargzIcon(r, pkg, t, app_name_lower, actual_exec, create_desktop, add_to_menu, term) ==
    TargzFinish(InstallIcon(r, pkg, t, app_name_lower), pkg, app_name_lower, actual_exec,
                IF r.exc # "" THEN NoPath ELSE InstallIconDest(r.fs, pkg, t, app_name_lower),
                create_desktop, add_to_menu, term)

\* _install_targz with its first executable at actual_exec
TargzSteps(pkg, t, create_desktop, add_to_menu, f, term, app_name_lower, install_dir, actual_exec) ==
    TargzIcon(ReplaceLink(TargzCopy(f, t, install_dir), PathJoin(bin_dir, app_name_lower),
                          actual_exec),
              pkg, t, app_name_lower, actual_exec, create_desktop, add_to_menu, term)

\* every file with execute permission, whatever its suffix
TargzExecutablesAll(t) == {i \in 1..Len(t) : t[i].kind = "file" /\ t[i].x}

\* the files of the tree _install_targz takes for executables
TargzExecutables(t) ==
    {i \in 1..Len(t) : /\ t[i].kind = "file" /\ t[i].x
                       /\ Suffix(t[i].path) \notin {DotSo, DotA, DotSh}}

\* PackageInstaller._install_targz; term is the terminal emulator found
InstallTargz(pkg, t, create_desktop, add_to_menu, f, term) ==
    IF pkg.extract_dir = NoPath THEN Outcome(f, "AttributeError", NoResult)
    ELSE IF TargzExecutables(t) = {}
        THEN Outcome(f, "", InstallResult(FALSE, <<"no executable found">>, <<>>,
                                          NoPath, FALSE))
    ELSE TargzSteps(pkg, t, create_desktop, add_to_menu, f, term, TargzAppId(pkg.name),
                    PathJoin(install_base, TargzAppId(pkg.name)),
                    PathJoin(PathJoin(install_base, TargzAppId(pkg.name)),
                             t[Min(TargzExecutables(t))].path))

\* a subprocess.run of a distrobox command and the exit code it came back with
Cmd(cmd, rc) == [cmd |-> cmd, rc |-> rc]

\* the commands of _install_distrobox once the container exists: none of
\* the three results is looked at
InContainer(box) ==
    <<Cmd("install", box.steps[1]), Cmd("repair", box.steps[2]), Cmd("export", box.steps[3])>>

\* the list command, and the create command when the list does not name
\* the container
ListAndCreate(box) ==
    IF box.listed THEN <<Cmd("list", 0)>> ELSE <<Cmd("list", 0), Cmd("create", box.create_rc)>>

\* a container install that gives up when the package installation inside
\* the container exits non-zero
InstallDistroboxChecked(pkg, f, box) ==
    IF ~box.which
        THEN Outcome(f, "", InstallResult(FALSE, <<"install distrobox first">>, <<>>,
                                          NoPath, FALSE))
    ELSE IF ~box.listed /\ box.create_rc # 0
        THEN Ran(Outcome(f, "", InstallResult(FALSE, <<"container creation failed">>, <<>>,
                                              NoPath, FALSE)),
                 ListAndCreate(box))
    ELSE IF box.steps[1] # 0
        THEN Ran(Outcome(f, "", InstallResult(FALSE, <<"install in container failed">>, <<>>,
                                              NoPath, FALSE)),
                 ListAndCreate(box) \o <<Cmd("install", box.steps[1])>>)
    ELSE Ran(Outcome(f, "", InstallResult(TRUE, <<"installed in container: ">> \o pkg.name,
                                          DistroboxAppId(pkg.name), NoPath, TRUE)),
             ListAndCreate(box) \o InContainer(box))

\* PackageInstaller._install_distrobox; box says whether the distrobox program
\* is installed, whether its list names the container, how create exits and
\* how the three commands inside the container exit.
\* Nothing of the user's file system is written by the installer itself.
InstallDistrobox(pkg, f, box) ==
    IF ~box.which
        THEN Outcome(f, "", InstallResult(FALSE, <<"install distrobox first">>, <<>>,
                                          NoPath, FALSE))
    ELSE IF ~box.listed /\ box.create_rc # 0
        THEN Ran(Outcome(f, "", InstallResult(FALSE, <<"container creation failed">>, <<>>,
                                              NoPath, FALSE)),
                 ListAndCreate(box))
    ELSE Ran(Outcome(f, "", InstallResult(TRUE, <<"installed in container: ">> \o pkg.name,
                                          DistroboxAppId(pkg.name), NoPath, TRUE)),
             ListAndCreate(box) \o InContainer(box))

\* a dispatch that takes the container path for every package type
InstallDispatchAnyType(ref, t, mode, create_desktop, add_to_menu, f, env) ==
    IF ref = <<>> THEN Outcome(f, "AttributeError", NoResult)
    ELSE IF mode = "DISTROBOX" THEN InstallDistrobox(ref[1], f, env.box)
    ELSE IF ref[1].package_type = "TAR_GZ"
        THEN InstallTargz(ref[1], t, create_desktop, add_to_menu, f, env.term)
    ELSE InstallDeb(ref[1], t, create_desktop, add_to_menu, f)

\* the body of the try of PackageInstaller.install; ref is the pkg argument,
\* <<>> for None, and t the listing of its scratch directory
InstallDispatch(ref, t, mode, create_desktop, add_to_menu, f, env) ==
    IF ref = <<>> THEN Outcome(f, "AttributeError", NoResult)
    ELSE IF mode = "DISTROBOX" /\ ref[1].package_type = "DEB"
        THEN InstallDistrobox(ref[1], f, env.box)
    ELSE IF ref[1].package_type = "TAR_GZ"
        THEN InstallTargz(ref[1], t, create_desktop, add_to_menu, f, env.term)
    ELSE InstallDeb(ref[1], t, create_desktop, add_to_menu, f)

\* the except clause of install: an exception becomes a failure result that
\* carries it
Caught(o) ==
    IF o.exc # ""
    THEN Ran(Outcome(o.fs, "", InstallResult(FALSE, <<"install failed: ", o.exc>>, <<>>,
                                             NoPath, FALSE)),
             o.cmds)
    ELSE o

\* install without its try/except: whatever the body raises leaves the method
InstallUncaught(ref, t, mode, create_desktop, add_to_menu, f, env) ==
    InstallDispatch(ref, t, mode, create_desktop, add_to_menu, f, env)

\* PackageInstaller.install
Install(ref, t, mode, create_desktop, add_to_menu, f, env) ==
    Caught(InstallDispatch(ref, t, mode, create_desktop, add_to_menu, f, env))

\* the files of directory d that uninstall's glob '*<id>*' yields
GlobContaining(f, d, app_name_lower) ==
    {p \in Children(f, d) : Contains(BaseName(p), app_name_lower)}

\* one directory of the loop of uninstall: every match is unlinked.  With an
\* empty id the pattern is '**', which yields the directory itself.
UnlinkMatches(r, d, app_name_lower) ==
    LET M == GlobContaining(r.fs, d, app_name_lower)
    IN  IF r.exc # "" \/ ~IsDir(r.fs, d) THEN r
        ELSE IF app_name_lower = <<>> \/ \E p \in M : r.fs[p].kind = "dir"
            THEN Run(r.fs, "IsADirectoryError")
        ELSE Run([q \in DOMAIN r.fs \ M |-> r.fs[q]], "")

\* uninstall: the install directory removed, errors ignored
RemoveAppDir(f, app_dir) ==
    IF Exists(f, app_dir) /\ app_dir \in DOMAIN f /\ f[app_dir].kind = "dir"
    THEN Run(Without(f, app_dir), "") ELSE Run(f, "")

\* uninstall: the wrapper or link removed when there is one
RemoveBinLink(r, bin_link) ==
    IF Exists(r.fs, bin_link) \/ IsSymlink(r.fs, bin_link) THEN Unlink(r, bin_link) ELSE r

\* uninstall: the launcher script removed when there is one
RemoveLauncher(r, launcher) ==
    IF r.exc = "" /\ Exists(r.fs, launcher) THEN Unlink(r, launcher) ELSE r

\* uninstall with the id computed
UninstallSteps(app_name_lower, f) ==
    RemoveLauncher(
        UnlinkMatches(
            UnlinkMatches(
                RemoveBinLink(RemoveAppDir(f, PathJoin(install_base, app_name_lower)),
                              PathJoin(bin_dir, app_name_lower)),
                apps_dir, app_name_lower),
            desktop_dir, app_name_lower),
        LauncherPath(app_name_lower))

\* PackageInstaller.uninstall: the file system afterwards and the exception
\* that left the method ("" when it returned True)
Uninstall(app_name, f) == UninstallSteps(UninstallAppId(app_name), f)

-----------------------------------------------------------------------------
(* class InstalledApp, class InstalledAppsDialog *)

DotLocalShare == <<".", "l", "o", "c", "a", "l", "/", "s", "h", "a", "r", "e">>

DotLocalBin == <<".", "l", "o", "c", "a", "l", "/", "b", "i", "n">>

\* InstalledApp.from_desktop_file: whether the file gives an InstalledApp (it
\* can be read and mentions the managed install tree)
IsInstalledApp(f, path) ==
    /\ f[path].kind = "file" /\ f[path].utf8
    /\ \E i \in 1..Len(f[path].body) :
           Contains(f[path].body[i], DotLocalShare) \/ Contains(f[path].body[i], DotLocalBin)

\* InstalledApp.from_desktop_file: the name, from the first line with key
\* Name, else the stem of the file name
InstalledAppName(f, path) ==
    LET body == f[path].body
        N == {i \in 1..Len(body) :
                  Find(body[i], "=") # 0 /\ Strip(SplitFirst(body[i], "=")) = <<"N", "a", "m", "e">>}
    IN  IF N = {} THEN Stem(path) ELSE Strip(AfterFirst(body[Min(N)], "="))

\* InstalledAppsDialog._load_apps: the desktop entries shown in the list
LoadApps(f) ==
    {p \in Children(f, apps_dir) : EndsWith(BaseName(p), DotDesktop) /\ IsInstalledApp(f, p)}

-----------------------------------------------------------------------------
(* Packages the specifications install *)

\* lines of desktop entries
EntryHeader == <<"[Desktop Entry]">>

ActionHeader == <<"[Desktop Action new]">>

\* what --help of the packaged program prints
PlainProbe == [raises |-> FALSE, rc |-> 0, out |-> <<"u", "s", "a", "g", "e">>]

DaemonProbe == [raises |-> FALSE, rc |-> 0, out |-> <<"D", "a", "e", "m", "o", "n">>]

\* the directories above the desktop entry and the icon of a package
ShareDirs ==
    << DirEntry(<<"u", "s", "r">>), DirEntry(UsrShare),
       DirEntry(PathJoin(UsrShare, <<"a", "p", "p", "s">>)), DirEntry(Pixmaps) >>

\* a desktop entry file of a package
DesktopEntry(stem, lines) ==
    FileEntry(PathJoin(PathJoin(UsrShare, <<"a", "p", "p", "s">>), stem \o DotDesktop),
              FALSE, lines)

\* a_1.deb: payload opt/a with the program opt/a/a, an entry a.desktop, an icon
DebOptTree ==
    << DirEntry(OptDir), DirEntry(PathJoin(OptDir, <<"a">>)),
       FileEntry(PathJoin(OptDir, <<"a", "/", "a">>), TRUE, << <<"1">> >>) >>
    \o ShareDirs
    \o << DesktopEntry(<<"a">>,
              << EntryHeader, NameEq \o <<"a">>,
                 ExecEq \o <<"/">> \o OptDir \o <<"/", "a", "/", "a", " ", "-", "f">>,
                 IconEq \o <<"a">> >>),
          FileEntry(PathJoin(Pixmaps, <<"a">> \o DotPng), FALSE, << <<"1">> >>) >>

DebOpt == Archive(<<"a", "_", "1">> \o DotDeb, "ok", TRUE, TRUE, TRUE, DebOptTree, PlainProbe)

\* b_1.deb: a loose program usr/bin/b; its entry b.desktop names the
\* application "B" and, in an action group, "a"
DebTwoNamesTree ==
    << DirEntry(<<"u", "s", "r">>), DirEntry(UsrBin),
       FileEntry(PathJoin(UsrBin, <<"b">>), TRUE, << <<"2">> >>),
       DirEntry(UsrShare), DirEntry(PathJoin(UsrShare, <<"a", "p", "p", "s">>)),
       DesktopEntry(<<"b">>,
           << EntryHeader, NameEq \o <<"B">>, ExecEq \o <<"b">>,
              ActionHeader, NameEq \o <<"a">> >>) >>

DebTwoNames == Archive(<<"b", "_", "1">> \o DotDeb, "ok", TRUE, TRUE, TRUE, DebTwoNamesTree,
                       PlainProbe)

\* a_2.deb: no payload directory, only an entry, an icon and a library
DebNoPayloadTree ==
    ShareDirs
    \o << DesktopEntry(<<"a">>, << EntryHeader, NameEq \o <<"a">>, ExecEq \o <<"a">> >>),
          FileEntry(PathJoin(Pixmaps, <<"a", "2">> \o DotPng), FALSE, << <<"3">> >>),
          DirEntry(UsrLib),
          FileEntry(PathJoin(UsrLib, <<"z">> \o DotSo), FALSE, << <<"3">> >>) >>

DebNoPayload == Archive(<<"a", "_", "2">> \o DotDeb, "ok", TRUE, TRUE, TRUE, DebNoPayloadTree,
                        PlainProbe)

\* b_2.deb: payload opt/b, and an entry that is not UTF-8 text
DebBadEntryTree ==
    << DirEntry(OptDir), DirEntry(PathJoin(OptDir, <<"b">>)),
       FileEntry(PathJoin(OptDir, <<"b", "/", "b">>), TRUE, << <<"4">> >>),
       DirEntry(<<"u", "s", "r">>), DirEntry(UsrShare),
       [DesktopEntry(<<"b">>, << EntryHeader >>) EXCEPT !.utf8 = FALSE] >>

DebBadEntry == Archive(<<"b", "_", "2">> \o DotDeb, "ok", TRUE, TRUE, TRUE, DebBadEntryTree,
                       PlainProbe)

\* a_3.deb: an ar container without a data.tar member that dpkg-deb rejects
DebNoData == Archive(<<"a", "_", "3">> \o DotDeb, "fail", TRUE, FALSE, TRUE, <<>>, PlainProbe)

\* a_4.deb: a file no tool can unpack
DebCorrupt == Archive(<<"a", "_", "4">> \o DotDeb, "fail", FALSE, FALSE, FALSE, <<>>,
                      PlainProbe)

\* a-1.tar.gz: one program a that is a server, and an icon
TgzServerTree ==
    << FileEntry(<<"a">>, TRUE, << <<"5">> >>),
       FileEntry(<<"i", "c", "o", "n">> \o DotPng, FALSE, << <<"5">> >>) >>

TgzServer == Archive(<<"a", "-", "1">> \o DotTarGz, "ok", TRUE, TRUE, TRUE, TgzServerTree,
                     DaemonProbe)

\* ab-2.tgz: one program bin/ab
TgzPlainTree ==
    << DirEntry(<<"b", "i", "n">>),
       FileEntry(<<"b", "i", "n", "/", "a", "b">>, TRUE, << <<"6">> >>) >>

TgzPlain == Archive(<<"a", "b", "-", "2">> \o DotTgz, "ok", TRUE, TRUE, TRUE, TgzPlainTree,
                    PlainProbe)

\* a-3.tgz: a text file, and a script and a library with execute permission
TgzNoExec == Archive(<<"a", "-", "3">> \o DotTgz, "ok", TRUE, TRUE, TRUE,
                     << FileEntry(<<"r">>, FALSE, << <<"7">> >>),
                        FileEntry(<<"r">> \o DotSh, TRUE, << <<"7">> >>),
                        FileEntry(<<"r">> \o DotSo, TRUE, << <<"7">> >>) >>, PlainProbe)

\* a.zip: not a supported archive
ZipFile == Archive(<<"a", ".", "z", "i", "p">>, "ok", TRUE, TRUE, TRUE, <<>>, PlainProbe)

\* b_3.deb: a loose program usr/bin/b, no desktop entry and no icon
DebNoEntry ==
    Archive(<<"b", "_", "3">> \o DotDeb, "ok", TRUE, TRUE, TRUE,
            << DirEntry(<<"u", "s", "r">>), DirEntry(UsrBin),
               FileEntry(PathJoin(UsrBin, <<"b">>), TRUE, << <<"9">> >>) >>,
            PlainProbe)

\* the archives of the engine specification
Archives ==
    {DebOpt, DebTwoNames, DebNoPayload, DebBadEntry, DebNoData, DebNoEntry,
     TgzServer, TgzPlain, TgzNoExec, ZipFile}

\* the application names uninstall is called with directly
UninstallNames == { <<"a">>, <<"A">>, <<"b">>, <<"a", "b">> }

\* the install options: mode, create_desktop, add_to_menu
InstallOptions ==
    { <<"DIRECT", TRUE, TRUE>>, <<"DIRECT", FALSE, FALSE>>, <<"DISTROBOX", TRUE, TRUE>> }

\* the machine: whether the desktop folder exists, the terminal emulator
\* found, and what the distrobox commands do
Envs ==
    { [desktop |-> TRUE,
       term |-> << <<"x", "t", "e", "r", "m">>, << <<"-", "e">> >> >>,
       box |-> [which |-> TRUE, listed |-> FALSE, create_rc |-> 0, steps |-> <<0, 0, 0>>]] }

-----------------------------------------------------------------------------
(* State *)

VARIABLES
    env,        \* the machine the program runs on
    fs,         \* the file system under the home directory
    scratch,    \* the scratch directories that exist: path -> listing
    objs,       \* the Package objects, with what has been done to each
    ops,        \* install and uninstall calls made so far
    last,       \* the latest install or uninstall call, with its outcome
    prev,       \* the call before it
    package,    \* InstallerWindow.package: a position in objs, 0 for None
    stack,      \* the visible page of the window
    install_btn,\* whether the install button is sensitive
    threads,    \* the worker threads that have not finished
    idle,       \* the callbacks queued with GLib.idle_add
    loads       \* packages loaded into the window so far

vars == <<env, fs, scratch, objs, ops, last, prev, package, stack, install_btn,
          threads, idle, loads>>

windowVars == <<package, stack, install_btn, threads, idle, loads>>

\* the home directory of a fresh account after PackageInstaller.__init__
InitFS(e) ==
    LET dirs == { <<"~">>, Parent(install_base), install_base, bin_dir, icons_dir, apps_dir }
                \cup (IF e.desktop THEN {desktop_dir} ELSE {})
    IN  [p \in dirs |-> DirNode]

\* the empty map of scratch directories
NoScratch == [p \in {} |-> <<>>]

\* names tempfile.mkdtemp can return
TmpChars == <<"p", "q", "r", "s", "t", "u", "v", "w">>

TmpName(n) == <<"/", "t", "m", "p", "/", "p", "k", "g", "-">> \o <<TmpChars[n]>>

\* tempfile.mkdtemp: a directory that does not exist yet
MkDTemp(sc) == TmpName(Min({n \in 1..Len(TmpChars) : TmpName(n) \notin DOMAIN sc}))

\* A Package object and the record of its life:
\*   extracts  calls of extract() begun
\*   ok        what the latest finished extract() returned ("none" before)
\*   tools     the programs that call ran
\*   dirs      every scratch directory made for it
NewObj(arc) ==
    [pkg |-> NewPackage(arc), extracts |-> 0, ok |-> "none", tools |-> <<>>, dirs |-> {}]

\* the listing of a Package's scratch directory (empty when it is gone)
ScratchOf(sc, pkg) == IF pkg.extract_dir \in DOMAIN sc THEN sc[pkg.extract_dir] ELSE <<>>

\* Package.cleanup
Cleanup(sc, pkg) ==
    IF pkg.extract_dir # NoPath /\ pkg.extract_dir \in DOMAIN sc
    THEN [q \in DOMAIN sc \ {pkg.extract_dir} |-> sc[q]]
    ELSE sc

\* the record of an install or uninstall call
Call(op, listed, name, id, ok, exc, inner, before, ref, t, opt, entry, result, cmds) ==
    [op |-> op, listed |-> listed, name |-> name, id |-> id, ok |-> ok, exc |-> exc,
     inner |-> inner, before |-> before, ref |-> ref, t |-> t, opt |-> opt,
     entry |-> entry, result |-> result, cmds |-> cmds]

NoCall ==
    Call("none", FALSE, <<>>, <<>>, FALSE, "", "", InitFS([desktop |-> FALSE]), <<>>, <<>>,
         <<"DIRECT", FALSE, FALSE>>, NoPath, NoResult, <<>>)

InitWindow ==
    /\ package = 0
    /\ stack = "drop"
    /\ install_btn = TRUE
    /\ threads = {}
    /\ idle = <<>>
    /\ loads = 0

InitEngine ==
    /\ env \in Envs
    /\ fs = InitFS(env)
    /\ scratch = NoScratch
    /\ objs = <<>>
    /\ ops = 0
    /\ last = NoCall
    /\ prev = NoCall

Init == InitEngine /\ InitWindow

-----------------------------------------------------------------------------
(* The engine called directly, one Package at a time *)

\* pkg = Package(path), when no Package holds a scratch directory
Construct(arc) ==
    /\ ops < MaxOps
    /\ scratch = NoScratch
    /\ objs' = <<NewObj(arc)>>
    /\ UNCHANGED <<env, fs, scratch, ops, last, prev>>
    /\ UNCHANGED windowVars

\* the object after extract() made directory tmp and returned outcome o
Extracted(obj, tmp, o) ==
    [obj EXCEPT !.pkg = o.pkg, !.extracts = @ + 1,
                !.ok = IF o.ok THEN "true" ELSE "false",
                !.tools = o.tools, !.dirs = @ \cup {tmp}]

\* pkg.extract()
ExtractCall ==
    /\ objs # <<>>
    /\ objs[1].extracts = 0
    /\ \E tmp \in {MkDTemp(scratch)} :
       \E o \in {Extract(objs[1].pkg, tmp)} :
           /\ scratch' = (tmp :> o.tree) @@ scratch
           /\ objs' = <<Extracted(objs[1], tmp, o)>>
    /\ UNCHANGED <<env, fs, ops, last, prev>>
    /\ UNCHANGED windowVars

\* pkg.cleanup(), after which the Package is dropped
CleanupCall ==
    /\ objs # <<>>
    /\ objs[1].pkg.extract_dir \in DOMAIN scratch
    /\ scratch' = Cleanup(scratch, objs[1].pkg)
    /\ objs' = <<>>
    /\ UNCHANGED <<env, fs, ops, last, prev>>
    /\ UNCHANGED windowVars

\* the app id the install methods derive from a Package
InstallAppId(pkg) ==
    IF pkg.package_type = "TAR_GZ" THEN TargzAppId(pkg.name) ELSE DebAppId(pkg.name)

\* installer.install(pkg, mode, create_desktop, add_to_menu)
InstallCall(opt) ==
    /\ objs # <<>>
    /\ ops < MaxOps
    /\ \E pkg \in {objs[1].pkg} :
       \E t \in {ScratchOf(scratch, pkg)} :
       \E inner \in {InstallDispatch(<<pkg>>, t, opt[1], opt[2], opt[3], fs, env)} :
       \E o \in {Install(<<pkg>>, t, opt[1], opt[2], opt[3], fs, env)} :
           /\ fs' = o.fs
           /\ last' = Call("install", FALSE, pkg.name, InstallAppId(pkg), o.result.success,
                           o.exc, inner.exc, fs, <<pkg>>, t, opt, NoPath, o.result, o.cmds)
    /\ prev' = last
    /\ ops' = ops + 1
    /\ UNCHANGED <<env, scratch, objs>>
    /\ UNCHANGED windowVars

\* installer.uninstall(name)
UninstallCall(name) ==
    /\ ops < MaxOps
    /\ objs = <<>>
    /\ \E r \in {Uninstall(name, fs)} :
           /\ fs' = r.fs
           /\ last' = Call("uninstall", FALSE, name, UninstallAppId(name), r.exc = "", r.exc,
                           r.exc, fs, <<>>, <<>>, <<"DIRECT", FALSE, FALSE>>, NoPath, NoResult, <<>>)
    /\ prev' = last
    /\ ops' = ops + 1
    /\ UNCHANGED <<env, scratch, objs>>
    /\ UNCHANGED windowVars

\* InstalledAppsDialog._on_uninstall_response for the row of desktop entry p:
\* uninstall is called with the name read from that entry
UninstallListed(p) ==
    /\ ops < MaxOps
    /\ objs = <<>>
    /\ p \in LoadApps(fs)
    /\ \E name \in {InstalledAppName(fs, p)} :
       \E r \in {Uninstall(name, fs)} :
           /\ fs' = r.fs
           /\ last' = Call("uninstall", TRUE, name, UninstallAppId(name), r.exc = "", r.exc,
                           r.exc, fs, <<>>, <<>>, <<"DIRECT", FALSE, FALSE>>, p, NoResult, <<>>)
    /\ prev' = last
    /\ ops' = ops + 1
    /\ UNCHANGED <<env, scratch, objs>>
    /\ UNCHANGED windowVars

Next ==
    \/ \E arc \in Archives : Construct(arc)
    \/ ExtractCall
    \/ CleanupCall
    \/ \E opt \in InstallOptions : InstallCall(opt)
    \/ \E name \in UninstallNames : UninstallCall(name)
    \/ \E p \in DOMAIN fs : UninstallListed(p)

Spec == Init /\ [][Next]_vars

-----------------------------------------------------------------------------
(* Properties of the engine *)

\* a call that was a successful install into the user's directories
DirectOk(c) == c.op = "install" /\ c.ok /\ ~c.result.via_distrobox

\* the latest two calls were installs of one app id, with the same options
Reinstalled == DirectOk(prev) /\ DirectOk(last) /\ prev.id = last.id /\ prev.opt = last.opt

\* the file system the second install alone gives, run where the first began
SecondAlone ==
    Install(last.ref, last.t, last.opt[1], last.opt[2], last.opt[3], prev.before, env).fs

\* the paths only the first of two installs accounts for
Leftovers == {p \in DOMAIN fs : p \notin DOMAIN SecondAlone}

\* C1: after two direct installs of the same app id, one after the other,
\* no file that only the first install created is left: every path is one the
\* second install creates by itself or one that was there before the first.
ReinstallLeavesNoLeftover == Reinstalled => Leftovers = {}

\* what is left of a successful direct install after uninstall was called
\* with the name the install reported
Remains ==
    IF DirectOk(prev) /\ last.op = "uninstall" /\ ~last.listed
       /\ last.name = prev.result.app_name
    THEN {p \in DOMAIN fs : p \notin DOMAIN prev.before}
    ELSE {}

\* C2: uninstall after a successful direct install, called with the installed
\* application's name, leaves nothing the install created (install directory,
\* wrapper or link, icon, desktop entries, launcher script).
UninstallRemovesEverything == Remains = {}

\* the desktop entries of f that belong to app id: named after it, or giving
\* a Name that normalizes to it
OwnEntries(f, id) ==
    {p \in Children(f, apps_dir) \cup Children(f, desktop_dir) :
        \/ Stem(p) = id
        \/ f[p].kind = "file" /\ UninstallAppId(InstalledAppName(f, p)) = id}

\* app id has no install directory, wrapper or link, launcher or desktop
\* entry of its own in f
NeverInstalled(f, id) ==
    /\ id # <<>>
    /\ PathJoin(install_base, id) \notin DOMAIN f
    /\ PathJoin(bin_dir, id) \notin DOMAIN f
    /\ LauncherPath(id) \notin DOMAIN f
    /\ OwnEntries(f, id) = {}

\* C3: uninstall of a never-installed app id returns without raising and
\* leaves every file unchanged.
UninstallUnknownIsNoOp ==
    last.op = "uninstall" /\ NeverInstalled(last.before, last.id)
        => last.exc = "" /\ fs = last.before

\* C5: a Package has extract_dir set only after its extract() returned true,
\* and never holds more than one scratch directory in its life.
ExtractDirOnlyAfterSuccess ==
    \A i \in 1..Len(objs) :
        /\ objs[i].pkg.extract_dir # NoPath => objs[i].ok = "true"
        /\ Cardinality(objs[i].dirs) <= 1

\* C7: when an app installed directly is uninstalled from the management
\* list, through the desktop entry that install wrote, the id uninstall
\* computes is the id install used.
ListedUninstallUsesInstallId ==
    /\ DirectOk(prev)
    /\ last.op = "uninstall" /\ last.listed
    /\ last.entry \notin DOMAIN prev.before
    => last.id = prev.id

\* C9: install() never lets an exception out, and a failure inside it gives a
\* result with success false whose message carries the error.
InstallNeverRaises ==
    last.op = "install" =>
        /\ last.exc = ""
        /\ last.inner # "" =>
              /\ ~last.result.success
              /\ last.inner \in Range(last.result.message)

\* an install whose body raised
InstallRaisedInside == last.op = "install" /\ last.inner # "" /\ ~last.ok

\* C10: when extract() returned true for a DEB, a tool has unpacked the data
\* tree into the scratch directory: dpkg-deb succeeded, or tar ran on the
\* data.tar member.
DebSuccessMeansUnpacked ==
    \A i \in 1..Len(objs) :
        objs[i].ok = "true" /\ objs[i].pkg.package_type = "DEB" =>
            \/ objs[i].pkg.arc.dpkg = "ok"
            \/ "tar" \in Range(objs[i].tools)

\* the tree has no executable candidate: every file with execute permission
\* has one of the suffixes .so, .a, .sh
NoCandidate(t) ==
    \A i \in 1..Len(t) :
        t[i].kind = "file" /\ t[i].x =>
            \/ EndsWith(BaseName(t[i].path), DotSo)
            \/ EndsWith(BaseName(t[i].path), DotA)
            \/ EndsWith(BaseName(t[i].path), DotSh)

\* the last call was install of an extracted tar.gz package without candidate
NoCandidateInstall ==
    /\ last.op = "install"
    /\ last.ref[1].package_type = "TAR_GZ"
    /\ last.ref[1].extract_dir # NoPath
    /\ NoCandidate(last.t)

\* C15: install of a tar.gz package with no executable candidate returns a
\* failure result and leaves the file system as it was.
NoCandidateChangesNothing ==
    NoCandidateInstall => last.exc = "" /\ ~last.result.success /\ fs = last.before

\* such an install was tried over an installed app of the same id
NoCandidateOverInstalled ==
    /\ NoCandidateInstall
    /\ last.t # <<>>
    /\ PathJoin(install_base, last.id) \in DOMAIN last.before

\* the part of file system f at and below path d
Below(f, d) == [p \in {q \in DOMAIN f : q = d \/ Under(q, d)} |-> f[p]]

\* the last call was a successful direct install of an extracted DEB in
\* which no payload directory is located
NoPayloadInstall ==
    /\ DirectOk(last)
    /\ last.ref[1].package_type = "DEB"
    /\ FindSourceDir(last.ref[1], last.t).src = <<>>

\* C16: a direct install of a DEB without payload directory reports success
\* with an empty executable and neither creates nor modifies the install
\* directory of the app id or its wrapper.
NoPayloadSkipsContent ==
    NoPayloadInstall =>
        /\ last.result.executable = NoPath
        /\ Below(fs, PathJoin(install_base, last.id))
               = Below(last.before, PathJoin(install_base, last.id))
        /\ Below(fs, PathJoin(bin_dir, last.id)) = Below(last.before, PathJoin(bin_dir, last.id))

\* the last call was a successful direct install of a DEB whose icon is a
\* file of the package
DebIconInstall ==
    /\ DirectOk(last)
    /\ last.ref[1].package_type = "DEB"
    /\ last.ref[1].icon # NoPath
    /\ \E i \in 1..Len(last.t) : last.t[i].path = last.ref[1].icon /\ last.t[i].kind = "file"

\* C17: a direct DEB install copies the icon of the package to the icon
\* directory under the app id followed by the icon's own extension.
DebIconNamedAfterApp ==
    DebIconInstall =>
        PathJoin(icons_dir, last.id \o Suffix(last.ref[1].icon)) \in DOMAIN fs

\* the files of directory d that the last call created or changed
Written(d) ==
    {p \in Children(fs, d) : p \notin DOMAIN last.before \/ fs[p] # last.before[p]}

\* C18: a direct install writes no desktop entry other than <app id>.desktop
\* in the applications directory, and none under another name in the desktop
\* folder.
EntryNamedAfterApp ==
    DirectOk(last) =>
        /\ Written(apps_dir) \subseteq {PathJoin(apps_dir, last.id \o DotDesktop)}
        /\ Written(desktop_dir) \subseteq {PathJoin(desktop_dir, last.id \o DotDesktop)}

\* C19: after a successful direct install with menu registration of a
\* package that carries no desktop entry, the applications directory holds a
\* desktop entry of the app.
EntrySynthesizedWhenNone ==
    /\ DirectOk(last) /\ last.opt[3]
    /\ last.ref[1].package_type \in {"DEB", "TAR_GZ"}
    /\ last.ref[1].desktop_file = NoPath
    => \E p \in OwnEntries(fs, last.id) : Parent(p) = apps_dir

\* the container path of install ran in call c: it reported the container
\* install, or one of its two failures
ContainerRan(c) ==
    \/ c.result.via_distrobox
    \/ c.result.message \in {<<"install distrobox first">>, <<"container creation failed">>}

\* C20: install takes the container path if and only if the mode is container
\* and the package is a DEB; a tar.gz package requested with container mode
\* is installed directly.
ContainerOnlyForDeb ==
    last.op = "install" =>
        /\ ContainerRan(last) <=>
               last.opt[1] = "DISTROBOX" /\ last.ref[1].package_type = "DEB"
        /\ last.opt[1] = "DISTROBOX" /\ last.ref[1].package_type = "TAR_GZ" /\ last.ok =>
               PathJoin(install_base, last.id) \in DOMAIN fs

\* a tar.gz package was installed with container mode requested
TargzWithContainerMode ==
    /\ last.op = "install" /\ last.ok
    /\ last.opt[1] = "DISTROBOX" /\ last.ref[1].package_type = "TAR_GZ"

\* C28: install does not report success for a Package of unknown type, nor
\* for one whose extract() returned false.
NoSuccessWithoutExtraction ==
    ( /\ last.op = "install"
      /\ objs # <<>> /\ last.ref = <<objs[1].pkg>>
      /\ (objs[1].pkg.package_type = "UNKNOWN" \/ objs[1].ok = "false") )
    => ~last.result.success

-----------------------------------------------------------------------------
(* Classification of file names *)

\* the characters of the leading part of a file name
StemChars == {"a", "b"}

\* the endings of the file names classified
NameEndings ==
    { DotDeb, <<".", "D", "E", "B">>, <<".", "D", "e", "b">>, <<"d", "e", "b">>,
      DotDeb \o <<".", "z", "i", "p">>, DotDeb \o <<"x">>,
      DotTarGz, <<".", "T", "A", "R", ".", "G", "Z">>, <<".", "t", "a", "r">>,
      <<".", "g", "z">>, <<"t", "a", "r", ".", "g", "z">>,
      DotTgz, <<".", "T", "g", "z">>, <<"t", "g", "z">>, <<".", "z", "i", "p">>, <<>> }

\* file names: a short leading part and one of the endings
FileNames ==
    {stem \o e : stem \in StringsUpTo(StemChars, MaxStemLen), e \in NameEndings} \ {<<>>}

\* an archive with that name which every tool would unpack
NamedArchive(file) == Archive(file, "ok", TRUE, TRUE, TRUE, DebOptTree, PlainProbe)

\* one Package of any of the file names, nothing else done yet
InitClassify ==
    /\ env \in Envs
    /\ fs = InitFS(env)
    /\ scratch = NoScratch
    /\ \E file \in FileNames : objs = <<NewObj(NamedArchive(file))>>
    /\ ops = 0
    /\ last = NoCall
    /\ prev = NoCall
    /\ InitWindow

NextClassify == ExtractCall \/ CleanupCall

SpecClassify == InitClassify /\ [][NextClassify]_vars

\* the name ends in one of the three suffixes, letter case ignored
HasArchiveSuffix(file) ==
    \/ EndsWith(Lower(file), DotDeb)
    \/ EndsWith(Lower(file), DotTarGz)
    \/ EndsWith(Lower(file), DotTgz)

\* the name ends in one of the three suffixes exactly as written
HasExactSuffix(file) ==
    EndsWith(file, DotDeb) \/ EndsWith(file, DotTarGz) \/ EndsWith(file, DotTgz)

\* C6: a file name that does not end in .deb, .tar.gz or .tgz, letter case
\* ignored, is classified UNKNOWN and its extract() fails without running a
\* tool; only names with such an ending are classified DEB or TAR_GZ.
UnknownSuffixFailsWithoutTools ==
    \A i \in 1..Len(objs) :
        LET o == objs[i]
        IN  /\ ~HasArchiveSuffix(o.pkg.path) =>
                  /\ o.pkg.package_type = "UNKNOWN"
                  /\ o.ok # "true"
                  /\ o.tools = <<>>
            /\ o.pkg.package_type \in {"DEB", "TAR_GZ"} => HasArchiveSuffix(o.pkg.path)

\* extract() has returned for a name without any of the suffixes
UnknownSuffixExtracted ==
    \E i \in 1..Len(objs) :
        /\ ~HasArchiveSuffix(objs[i].pkg.path)
        /\ objs[i].ok = "false"
        /\ objs[i].extracts = 1

\* C6 as written: a file name that does not end in .deb, .tar.gz or .tgz is
\* classified UNKNOWN and its extract() fails without running a tool; only
\* names ending so are classified DEB or TAR_GZ.
ExactSuffixDecidesType ==
    \A i \in 1..Len(objs) :
        LET o == objs[i]
        IN  /\ ~HasExactSuffix(o.pkg.path) =>
                  /\ o.pkg.package_type = "UNKNOWN"
                  /\ o.ok # "true"
                  /\ o.tools = <<>>
            /\ o.pkg.package_type \in {"DEB", "TAR_GZ"} => HasExactSuffix(o.pkg.path)

-----------------------------------------------------------------------------
(* Icon selection in tar.gz packages *)

\* icon files a tar.gz package may carry, by relative path
IconFiles ==
    { <<"i", "c", "o", "n">> \o DotSvg, <<"l", "o", "g", "o">> \o DotXpm,
      <<"a">> \o DotPng, <<"b", "4", "8">> \o DotSvg, <<"b", "6", "4">> \o DotPng,
      <<"b">> \o DotIco, <<"c">> \o DotPng }

\* the listings of up to MaxIcons different icon files
IconListings ==
    {s \in UNION {[1..k -> IconFiles] : k \in 0..MaxIcons} :
        \A i, j \in 1..Len(s) : s[i] = s[j] => i = j}

\* a-1.tgz with one program a and the icons of listing s
IconArchive(s) ==
    Archive(<<"a", "-", "1">> \o DotTgz, "ok", TRUE, TRUE, TRUE,
            << FileEntry(<<"a">>, TRUE, << <<"5">> >>) >>
            \o [i \in 1..Len(s) |-> FileEntry(s[i], FALSE, << <<"8">> >>)],
            PlainProbe)

\* names tempfile.mkdtemp may give the scratch directory: its random part is
\* made of letters, digits and "_"
IconTmpNames == {TmpName(1), <<"/", "t", "m", "p", "/", "p", "k", "g", "-", "6", "4">>}

\* one Package of a tar.gz file with any of the icon listings
InitIcons ==
    /\ env \in Envs
    /\ fs = InitFS(env)
    /\ scratch = NoScratch
    /\ \E s \in IconListings : objs = <<NewObj(IconArchive(s))>>
    /\ ops = 0
    /\ last = NoCall
    /\ prev = NoCall
    /\ InitWindow

\* pkg.extract(), mkdtemp giving any of the names
ExtractAt ==
    /\ objs # <<>>
    /\ objs[1].extracts = 0
    /\ \E tmp \in IconTmpNames :
       \E o \in {Extract(objs[1].pkg, tmp)} :
           /\ scratch' = (tmp :> o.tree) @@ scratch
           /\ objs' = <<Extracted(objs[1], tmp, o)>>
    /\ UNCHANGED <<env, fs, ops, last, prev>>
    /\ UNCHANGED windowVars

NextIcons == ExtractAt \/ CleanupCall

SpecIcons == InitIcons /\ [][NextIcons]_vars

\* the candidates of an extracted tar.gz Package, in the order encountered
Candidates(o) == AllIcons(o.pkg.arc.tree)

\* the score of candidate k
CandidateScore(o, k) == IconScore(o.pkg, o.pkg.extract_dir, Candidates(o)[k].path)

\* the positions of the selected icon among the candidates
Selected(o) == {k \in 1..Len(Candidates(o)) : Candidates(o)[k].path = o.pkg.icon}

\* C11: when a tar.gz Package with icon candidates has been extracted, one of
\* them is selected, no candidate scores higher than the selected one, and
\* every candidate encountered before it scores lower.
HighestScoreFirstEncountered ==
    \A i \in 1..Len(objs) :
        objs[i].ok = "true" /\ objs[i].pkg.package_type = "TAR_GZ"
            /\ Candidates(objs[i]) # <<>> =>
                /\ Selected(objs[i]) # {}
                /\ \A k \in Selected(objs[i]) :
                       /\ \A j \in 1..Len(Candidates(objs[i])) :
                              CandidateScore(objs[i], j) <= CandidateScore(objs[i], k)
                       /\ \A j \in 1..(k - 1) :
                              CandidateScore(objs[i], j) < CandidateScore(objs[i], k)

\* a later candidate was selected over an earlier one of lower score, and
\* another candidate with the same score came after the selected one
LaterIconSelected ==
    \E i \in 1..Len(objs) :
        /\ objs[i].ok = "true" /\ objs[i].pkg.package_type = "TAR_GZ"
        /\ \E k \in Selected(objs[i]) :
               /\ k > 1
               /\ \E j \in (k + 1)..Len(Candidates(objs[i])) :
                      CandidateScore(objs[i], j) = CandidateScore(objs[i], k)

-----------------------------------------------------------------------------
(* Application names and the app id *)

\* the characters of the application names
NameChars == {"a", "B", " ", "-"}

\* the application names
NameStrings == StringsUpTo(NameChars, MaxNameLen)

\* x_1.deb: payload opt/x with the program x, and an entry that gives name
NamedDeb(name) ==
    Archive(<<"x", "_", "1">> \o DotDeb, "ok", TRUE, TRUE, TRUE,
            << DirEntry(OptDir), DirEntry(PathJoin(OptDir, <<"x">>)),
               FileEntry(PathJoin(OptDir, <<"x", "/", "x">>), TRUE, << <<"1">> >>) >>
            \o ShareDirs
            \o << DesktopEntry(<<"x">>, << EntryHeader, NameEq \o name, ExecEq \o <<"x">> >>) >>,
            PlainProbe)

\* x-1.tgz whose only program is called name (no program for the empty name)
NamedTgz(name) ==
    Archive(<<"x", "-", "1">> \o DotTgz, "ok", TRUE, TRUE, TRUE,
            IF name = <<>> THEN << FileEntry(<<"r">>, FALSE, << <<"7">> >>) >>
            ELSE << FileEntry(name, TRUE, << <<"5">> >>) >>,
            PlainProbe)

\* one Package that carries any of the names
InitNames ==
    /\ env \in Envs
    /\ fs = InitFS(env)
    /\ scratch = NoScratch
    /\ \E name \in NameStrings :
           \/ objs = <<NewObj(NamedDeb(name))>>
           \/ objs = <<NewObj(NamedTgz(name))>>
    /\ ops = 0
    /\ last = NoCall
    /\ prev = NoCall
    /\ InitWindow

\* installer.uninstall called with the app name the last install reported
UninstallReported ==
    /\ last.op = "install"
    /\ UninstallCall(last.result.app_name)

\* the engine on that Package
NextNames ==
    \/ ExtractCall
    \/ CleanupCall
    \/ \E opt \in InstallOptions : InstallCall(opt)
    \/ UninstallReported

SpecNames == InitNames /\ [][NextNames]_vars

\* the four places that compute an app id give the same id for name x, and
\* give that id again when applied to it
SameAndIdempotent(x) ==
    /\ DebAppId(x) = UninstallAppId(x)
    /\ TargzAppId(x) = UninstallAppId(x)
    /\ DistroboxAppId(x) = UninstallAppId(x)
    /\ DebAppId(DebAppId(x)) = DebAppId(x)
    /\ TargzAppId(TargzAppId(x)) = TargzAppId(x)
    /\ DistroboxAppId(DistroboxAppId(x)) = DistroboxAppId(x)
    /\ UninstallAppId(UninstallAppId(x)) = UninstallAppId(x)

\* C12: normalizing a name twice gives what normalizing it once gives, and
\* install, container install and uninstall compute the same id from a name:
\* an install reports the id uninstall computes from the package name, and
\* uninstall called with a reported id acts on that id.
NormalizeIdempotent ==
    /\ SameAndIdempotent(last.name)
    /\ last.op = "install" /\ last.ok => last.result.app_name = UninstallAppId(last.name)
    /\ last.op = "uninstall" /\ prev.op = "install" /\ prev.ok
           /\ last.name = prev.result.app_name => last.id = prev.result.app_name

\* uninstall was called with the id reported by an install of a package
\* whose name has a capital letter and a space
UninstalledByReportedId ==
    /\ last.op = "uninstall" /\ prev.op = "install" /\ prev.ok
    /\ last.name = prev.result.app_name
    /\ " " \in Range(prev.name) /\ "B" \in Range(prev.name)

\* C26: install and uninstall remove only what lies inside the locations of
\* the app: the per-user data root, the icon and applications directories
\* in it and the executable root are never removed, whatever the name is.
DataRootNeverRemoved == {install_base, icons_dir, apps_dir, bin_dir} \subseteq DOMAIN fs

-----------------------------------------------------------------------------
(* Server detection and the synthesized entry *)

\* what the program prints when run with --help
ProbeOutputs ==
    { <<"u", "s", "a", "g", "e">>, <<"D", "a", "e", "m", "o", "n">>, <<"s", "e", "r", "v", "e">>,
      <<"s", "t", "a", "r", "t", "|", "s", "t", "o", "p">>, <<>> }

\* what running it does: it exits with a code, or the run raises (it cannot
\* be executed, or takes more than the two seconds allowed)
ProbeResults ==
    {[raises |-> FALSE, rc |-> c, out |-> o] : c \in {0, 1}, o \in ProbeOutputs}
    \cup {[raises |-> TRUE, rc |-> 1, out |-> o] : o \in {<<>>, <<"D", "a", "e", "m", "o", "n">>}}

\* the machines: with or without a desktop folder; no terminal emulator, one
\* that takes arguments or one that takes none
ServerEnvs ==
    {[desktop |-> d, term |-> tm, box |-> [which |-> TRUE, listed |-> FALSE, create_rc |-> 0, steps |-> <<0, 0, 0>>]] :
        d \in BOOLEAN,
        tm \in { <<>>, << <<"x", "t", "e", "r", "m">>, << <<"-", "e">> >> >>,
                 << <<"x", "d", "g", "-", "t", "e", "r", "m", "i", "n", "a", "l", "-", "e", "x", "e", "c">>, <<>> >> }}

\* a-1.tar.gz whose program behaves as probe says
ProbedTgz(probe) ==
    Archive(<<"a", "-", "1">> \o DotTarGz, "ok", TRUE, TRUE, TRUE, TgzServerTree, probe)

\* one Package of such a file on one of the machines
InitServer ==
    /\ env \in ServerEnvs
    /\ fs = InitFS(env)
    /\ scratch = NoScratch
    /\ \E probe \in ProbeResults : objs = <<NewObj(ProbedTgz(probe))>>
    /\ ops = 0
    /\ last = NoCall
    /\ prev = NoCall
    /\ InitWindow

NextServer ==
    \/ ExtractCall
    \/ CleanupCall
    \/ \E opt \in InstallOptions : InstallCall(opt)

SpecServer == InitServer /\ [][NextServer]_vars

\* the value of the first line of text file p that begins with key
EntryValue(f, p, key) ==
    LET L == {i \in 1..Len(f[p].body) : StartsWith(f[p].body[i], key)}
    IN  IF L = {} THEN <<>>
        ELSE Slice(f[p].body[Min(L)], Len(key) + 1, Len(f[p].body[Min(L)]))

TerminalEq == <<"T", "e", "r", "m", "i", "n", "a", "l", "=">>

\* the last call was a successful install of a tar.gz package with menu
\* registration, which synthesized the entry of the app
Synthesized ==
    /\ last.op = "install" /\ last.ok /\ last.opt[3]
    /\ last.ref[1].package_type = "TAR_GZ"
    /\ PathJoin(apps_dir, last.id \o DotDesktop) \in DOMAIN fs

SynthExec == EntryValue(fs, PathJoin(apps_dir, last.id \o DotDesktop), ExecEq)

SynthTerminal == EntryValue(fs, PathJoin(apps_dir, last.id \o DotDesktop), TerminalEq)

\* --help of the installed program printed "daemon", in any letter case
HelpSaysDaemon ==
    /\ ~last.ref[1].arc.probe.raises
    /\ Contains(Lower(last.ref[1].arc.probe.out), <<"d", "a", "e", "m", "o", "n">>)

\* --help printed none of the trigger words
HelpSaysNoWord ==
    /\ ~last.ref[1].arc.probe.raises
    /\ \A w \in ServerWords : ~Contains(Lower(last.ref[1].arc.probe.out), w)

\* the launcher script of the app is there
LauncherExists == LauncherPath(last.id) \in DOMAIN fs

\* the last call wrote no launcher script
NoLauncherCreated ==
    LauncherExists =>
        /\ LauncherPath(last.id) \in DOMAIN last.before
        /\ fs[LauncherPath(last.id)] = last.before[LauncherPath(last.id)]

\* Exec= runs the launcher script in a terminal emulator
TerminalLauncherForm ==
    /\ EndsWith(SynthExec, <<" ">> \o LauncherPath(last.id))
    /\ SynthTerminal = <<"f", "a", "l", "s", "e">>

\* Exec= is the executable itself
DirectForm == SynthExec = last.result.executable /\ SynthTerminal = <<"f", "a", "l", "s", "e">>

\* C13: a synthesized entry of an app whose help output contains "daemon"
\* comes with a launcher script; it runs the script in the terminal emulator
\* found, with Terminal=false, and when none is found it runs the script
\* itself with Terminal=true.  When the help output has none of the trigger
\* words the entry runs the executable with Terminal=false and no launcher
\* script is created.
ServerEntryFormByTerminal ==
    Synthesized =>
        /\ HelpSaysDaemon =>
               /\ LauncherExists
               /\ IF env.term # <<>>
                  THEN TerminalLauncherForm /\ StartsWith(SynthExec, env.term[1] \o <<" ">>)
                  ELSE SynthExec = LauncherPath(last.id) /\ SynthTerminal = <<"t", "r", "u", "e">>
        /\ HelpSaysNoWord => DirectForm /\ NoLauncherCreated

\* a server app was given its entry on a machine without terminal emulator
ServerWithoutTerminal == Synthesized /\ HelpSaysDaemon /\ env.term = <<>>

\* C13 as written: a synthesized entry of an app whose help output contains
\* "daemon" uses the terminal-launcher Exec= form with Terminal=false and a
\* launcher script exists; with none of the trigger words in the help output
\* it runs the executable with Terminal=false and no launcher script is
\* created.
ServerEntryForm ==
    Synthesized =>
        /\ HelpSaysDaemon => LauncherExists /\ TerminalLauncherForm
        /\ HelpSaysNoWord => DirectForm /\ NoLauncherCreated

\* the entry synthesized by the last call is that of a server: it runs the
\* launcher script
TreatedAsServer == Synthesized /\ EndsWith(SynthExec, LauncherPath(last.id))

\* C14: an app is treated as a server only if the --help probe exited with
\* status zero and its output contains one of the trigger words; a probe
\* that raised or exited non-zero makes it "not a server".
ServerOnlyOnCleanExit ==
    TreatedAsServer =>
        /\ ~last.ref[1].arc.probe.raises
        /\ last.ref[1].arc.probe.rc = 0
        /\ \E w \in ServerWords : Contains(Lower(last.ref[1].arc.probe.out), w)

-----------------------------------------------------------------------------
(* The container strategy *)

\* the exit codes of the install, the repair and the export inside the container
StepCodes == { <<0, 0, 0>>, <<100, 0, 0>>, <<0, 100, 0>>, <<0, 0, 1>>, <<100, 100, 1>> }

\* machines with and without distrobox, with and without the container
BoxEnvs ==
    {[desktop |-> TRUE, term |-> <<>>,
      box |-> [which |-> w, listed |-> l, create_rc |-> c, steps |-> st]] :
        w \in BOOLEAN, l \in BOOLEAN, c \in {0, 1}, st \in StepCodes}

BoxArchives == {DebOpt, DebNoEntry, TgzPlain}

InitBox ==
    /\ env \in BoxEnvs
    /\ fs = InitFS(env)
    /\ scratch = NoScratch
    /\ objs = <<>>
    /\ ops = 0
    /\ last = NoCall
    /\ prev = NoCall
    /\ InitWindow

NextBox ==
    \/ \E arc \in BoxArchives : Construct(arc)
    \/ ExtractCall
    \/ CleanupCall
    \/ \E opt \in InstallOptions : InstallCall(opt)

SpecBox == InitBox /\ [][NextBox]_vars

\* the last call was an install that took the container strategy
ContainerCall ==
    /\ last.op = "install"
    /\ last.opt[1] = "DISTROBOX"
    /\ last.ref[1].package_type = "DEB"

\* the names of the commands a call ran, in order
CmdNames(c) == [i \in DOMAIN c.cmds |-> c.cmds[i].cmd]

\* the create command was run and exited non-zero
CreateFailed(c) == \E i \in DOMAIN c.cmds : c.cmds[i].cmd = "create" /\ c.cmds[i].rc # 0

\* list, create exactly when the container is not listed, and after a create
\* that failed nothing more; otherwise install, repair and export in that
\* order, with a success result marked as a container install whatever the
\* three exit codes are
ContainerSequence ==
    /\ CmdNames(last) \in { <<"list", "install", "repair", "export">>,
                            <<"list", "create", "install", "repair", "export">>,
                            <<"list", "create">> }
    /\ CmdNames(last)[2] = "create" <=> ~env.box.listed
    /\ IF CreateFailed(last)
       THEN /\ ~last.result.success
            /\ CmdNames(last) = <<"list", "create">>
       ELSE /\ last.result.success
            /\ last.result.via_distrobox
            /\ Len(last.cmds) >= 4
            /\ \A k \in 1..3 : last.cmds[Len(last.cmds) - 3 + k].rc = env.box.steps[k]

\* C21: when the distrobox program is installed, the container strategy runs
\* list, create only when the container is not listed, then install, repair
\* and export; a failed create gives a failure result and no command inside
\* the container; otherwise the result is a success marked as a container
\* install whatever the three exit codes are.  Without the program the result
\* is a failure and no command is run.
ContainerSequenceWithTool ==
    ContainerCall =>
        IF env.box.which THEN ContainerSequence
        ELSE ~last.result.success /\ last.cmds = <<>>

\* a container install that reported success although a command inside the
\* container failed
ContainerStepFailedUnnoticed ==
    /\ ContainerCall
    /\ env.box.which /\ ~env.box.listed /\ env.box.create_rc = 0
    /\ env.box.steps[1] # 0
    /\ last.result.success /\ last.result.via_distrobox
    /\ Len(last.cmds) = 5

\* C21 as written: every install by the container strategy runs the command
\* sequence, and succeeds unless create failed
ContainerSequenceAlways == ContainerCall => ContainerSequence

-----------------------------------------------------------------------------
(* The payload directory of a DEB package *)

\* what b_1.deb may hold: a file and two directories in opt, usr/lib and
\* directories in it named after the app id "a", the name "A" and the file
\* name token "b", the same in usr/share, and usr/bin with a file and a
\* directory in it
PayloadParts ==
    {"opt/f", "opt/x", "opt/y", "lib", "lib/a", "lib/A", "lib/b", "share/a", "share/b",
     "bin", "bin/p"}

\* directory d holding one file named mark, when has
PayDir(has, d, mark) ==
    IF has THEN <<DirEntry(d), FileEntry(PathJoin(d, <<mark>>), FALSE, <<>>)>> ELSE <<>>

\* the tree of the package that holds the parts S; its entry names it "A"
PayloadTree(S) ==
    (IF S \cap {"opt/f", "opt/x", "opt/y"} # {} THEN <<DirEntry(OptDir)>> ELSE <<>>)
    \o (IF "opt/f" \in S THEN <<FileEntry(PathJoin(OptDir, <<"f">>), FALSE, <<>>)>> ELSE <<>>)
    \o PayDir("opt/x" \in S, PathJoin(OptDir, <<"x">>), "1")
    \o PayDir("opt/y" \in S, PathJoin(OptDir, <<"y">>), "2")
    \o <<DirEntry(<<"u", "s", "r">>)>>
    \o (IF S \cap {"lib", "lib/a", "lib/A", "lib/b"} # {} THEN <<DirEntry(UsrLib)>> ELSE <<>>)
    \o PayDir("lib/a" \in S, PathJoin(UsrLib, <<"a">>), "3")
    \o PayDir("lib/A" \in S, PathJoin(UsrLib, <<"A">>), "4")
    \o PayDir("lib/b" \in S, PathJoin(UsrLib, <<"b">>), "5")
    \o <<DirEntry(UsrShare), DirEntry(PathJoin(UsrShare, <<"a", "p", "p", "s">>)),
         DesktopEntry(<<"b">>, <<EntryHeader, NameEq \o <<"A">>, ExecEq \o <<"b">> >>)>>
    \o PayDir("share/a" \in S, PathJoin(UsrShare, <<"a">>), "6")
    \o PayDir("share/b" \in S, PathJoin(UsrShare, <<"b">>), "7")
    \o (IF S \cap {"bin", "bin/p"} # {} THEN <<DirEntry(UsrBin)>> ELSE <<>>)
    \o (IF "bin/p" \in S
        THEN <<DirEntry(PathJoin(UsrBin, <<"d">>)),
               FileEntry(PathJoin(UsrBin, <<"p">>), FALSE, <<>>)>>
        ELSE <<>>)

PayloadDeb(S) ==
    Archive(<<"b", "_", "1">> \o DotDeb, "ok", TRUE, TRUE, TRUE, PayloadTree(S), PlainProbe)

\* one Package of such a file
InitPayload ==
    /\ env \in Envs
    /\ fs = InitFS(env)
    /\ scratch = NoScratch
    /\ \E S \in SUBSET PayloadParts : objs = <<NewObj(PayloadDeb(S))>>
    /\ ops = 0
    /\ last = NoCall
    /\ prev = NoCall
    /\ InitWindow

NextPayload ==
    \/ ExtractCall
    \/ CleanupCall
    \/ \E opt \in InstallOptions : InstallCall(opt)

SpecPayload == InitPayload /\ [][NextPayload]_vars

\* the last call was a direct install of an extracted DEB package
PayloadInstall ==
    /\ DirectOk(last)
    /\ last.ref[1].package_type = "DEB"
    /\ last.ref[1].extract_dir # NoPath

\* the directories of listing t the priority names, highest first, for a
\* package with app id id, name nm and file name token tok
PriorityList(t, id, nm, tok) ==
    [i \in 1..Len(t) |-> IF Parent(t[i].path) = OptDir /\ t[i].kind = "dir"
                         THEN <<t[i].path>> ELSE <<>>]
    \o << IF TreeIsDir(t, PathJoin(UsrLib, id)) THEN <<PathJoin(UsrLib, id)>> ELSE <<>>,
          IF TreeIsDir(t, PathJoin(UsrLib, nm)) THEN <<PathJoin(UsrLib, nm)>> ELSE <<>>,
          IF TreeIsDir(t, PathJoin(UsrLib, tok)) THEN <<PathJoin(UsrLib, tok)>> ELSE <<>>,
          IF TreeIsDir(t, PathJoin(UsrShare, id)) THEN <<PathJoin(UsrShare, id)>> ELSE <<>>,
          IF TreeIsDir(t, PathJoin(UsrShare, nm)) THEN <<PathJoin(UsrShare, nm)>> ELSE <<>>,
          IF TreeIsDir(t, PathJoin(UsrShare, tok)) THEN <<PathJoin(UsrShare, tok)>> ELSE <<>>,
          IF \E i \in 1..Len(t) : Parent(t[i].path) = UsrBin THEN <<UsrBin>> ELSE <<>> >>

\* the first directory a priority list names (none: the empty list)
FirstFound(L) ==
    IF \A k \in 1..Len(L) : L[k] = <<>> THEN <<>>
    ELSE L[Min({k \in 1..Len(L) : L[k] # <<>>})]

\* the payload directory the priority gives for the last call
ExpectedPayload ==
    FirstFound(PriorityList(last.t, last.id, last.ref[1].name,
                            Split(Stem(last.ref[1].path), "_")[1]))

\* the names of the files (or of the directories) directly in directory d of
\* file system f
NamesIn(f, d, kind) == {BaseName(p) : p \in {q \in Children(f, d) : f[q].kind = kind}}

\* the same in a listing
NamesInTree(t, d, kind) == {BaseName(t[i].path) : i \in {j \in ChildIdx(t, d) : t[j].kind = kind}}

\* C22: a direct install of a DEB package copies the first directory the
\* priority names: the first subdirectory of opt, else in usr/lib and then
\* in usr/share the directory named by the app id, the name or the first
\* token of the file name, else usr/bin when it is not empty, of which only
\* the files are copied; when the priority names nothing, nothing is copied.
PayloadByPriority ==
    PayloadInstall =>
        LET final_install_dir == PathJoin(install_base, last.id)
        IN  IF ExpectedPayload = <<>>
            THEN Exists(fs, final_install_dir) <=> Exists(last.before, final_install_dir)
            ELSE /\ NamesIn(fs, final_install_dir, "file")
                        = NamesInTree(last.t, ExpectedPayload[1], "file")
                 /\ NamesIn(fs, final_install_dir, "dir") \ {<<"l", "i", "b">>}
                        = IF ExpectedPayload[1] = UsrBin THEN {}
                          ELSE NamesInTree(last.t, ExpectedPayload[1], "dir")

\* usr/lib/b was installed although usr/share/a exists: opt holds no
\* directory and usr/lib none named "a" or "A"
LibTokenBeforeShareId ==
    /\ PayloadInstall
    /\ TreeExists(last.t, PathJoin(OptDir, <<"f">>))
    /\ ExpectedPayload = <<PathJoin(UsrLib, <<"b">>)>>
    /\ TreeIsDir(last.t, PathJoin(UsrShare, <<"a">>))
    /\ TreeExists(last.t, PathJoin(UsrBin, <<"p">>))
    /\ PathJoin(PathJoin(install_base, <<"a">>), <<"5">>) \in DOMAIN fs

-----------------------------------------------------------------------------
(* The executable of a DEB package and its wrapper *)

\* a_5.deb: payload opt/a with the programs b and kiro-account-manager
DebKiro ==
    Archive(<<"a", "_", "5">> \o DotDeb, "ok", TRUE, TRUE, TRUE,
            << DirEntry(OptDir), DirEntry(PathJoin(OptDir, <<"a">>)),
               FileEntry(PathJoin(OptDir, <<"a", "/", "b">>), TRUE, << <<"5">> >>),
               FileEntry(PathJoin(PathJoin(OptDir, <<"a">>), KiroName), TRUE, << <<"6">> >>) >>,
            PlainProbe)

\* a_6.deb: payload opt/a with a text file and no program
DebNoExec ==
    Archive(<<"a", "_", "6">> \o DotDeb, "ok", TRUE, TRUE, TRUE,
            << DirEntry(OptDir), DirEntry(PathJoin(OptDir, <<"a">>)),
               FileEntry(PathJoin(OptDir, <<"a", "/", "r">>), FALSE, << <<"7">> >>) >>,
            PlainProbe)

ExecArchives == {DebOpt, DebKiro, DebNoExec}

NextExec ==
    \/ \E arc \in ExecArchives : Construct(arc)
    \/ ExtractCall
    \/ CleanupCall
    \/ \E opt \in InstallOptions : InstallCall(opt)

SpecExec == Init /\ [][NextExec]_vars

\* the candidates of the last install, in walk order: the executable files
\* below directory src of its listing whose suffix is not excluded
WalkCandidates(src) ==
    {i \in BelowIdx(last.t, src) :
        /\ last.t[i].kind = "file" /\ last.t[i].x
        /\ Suffix(last.t[i].path) \notin NotExecutableSuffixes}

\* the candidates named after the app: by its id or by its name in lower case
NamedCandidates(src) ==
    {i \in WalkCandidates(src) :
        Lower(Stem(last.t[i].path)) \in {last.id, Lower(last.ref[1].name)}}

\* where the file at position i of the listing is installed
InstalledAt(src, i) ==
    PathJoin(PathJoin(install_base, last.id), RelativeTo(last.t[i].path, src))

\* C23: after a direct install of a DEB package whose payload is a whole
\* directory, the executable reported is the first candidate named after the
\* app when there is one, and otherwise the first candidate; a candidate
\* with another name is never taken before the first one.
NamedOrFirstExecutable ==
    (PayloadInstall /\ ExpectedPayload # <<>> /\ ExpectedPayload # <<UsrBin>>) =>
        \E src \in {ExpectedPayload[1]} :
            last.result.executable =
                IF NamedCandidates(src) # {} THEN InstalledAt(src, Min(NamedCandidates(src)))
                ELSE IF WalkCandidates(src) # {} THEN InstalledAt(src, Min(WalkCandidates(src)))
                ELSE NoPath

\* the binary the wrapper of app id "a" executes
WrapperTarget ==
    LET body == fs[PathJoin(bin_dir, <<"a">>)].body
    IN  Slice(body[Len(body)], 3, Len(body[Len(body)]) - 3)

\* C24: whenever the wrapper of the app exists, the binary it executes is a
\* file in the install directory of the app.
WrapperTargetPresent ==
    PathJoin(bin_dir, <<"a">>) \in DOMAIN fs =>
        /\ WrapperTarget \in DOMAIN fs
        /\ Under(WrapperTarget, PathJoin(install_base, <<"a">>))

-----------------------------------------------------------------------------
(* The desktop entry of a DEB package rewritten *)

\* Lines of a desktop entry, and what each is to become for the app "a":
\*   yes  with the executable ~/.local/share/a/a resolved (an Exec= line), or
\*        with a.png in the icon directory (an Icon= line)
\*   no   without
EntryCases ==
    << [kind |-> "exec",
        line |-> <<"E", "x", "e", "c", "=", "/", "o", "p", "t", "/", "a", "/", "a", " ", "-", "f">>,
        yes |-> <<"E", "x", "e", "c", "=", "~", "/", ".", "l", "o", "c", "a", "l", "/", "s", "h", "a", "r", "e", "/", "a", "/", "a", " ", "-", "f">>,
        no |-> <<"E", "x", "e", "c", "=", "~", "/", ".", "l", "o", "c", "a", "l", "/", "s", "h", "a", "r", "e", "/", "a", "/", "a", " ", "-", "f">>],
       [kind |-> "exec",
        line |-> <<"E", "x", "e", "c", "=", "a", " ", " ", "-", "f", " ", " ", "%", "U">>,
        yes |-> <<"E", "x", "e", "c", "=", "~", "/", ".", "l", "o", "c", "a", "l", "/", "s", "h", "a", "r", "e", "/", "a", "/", "a", " ", "-", "f", " ", "%", "U">>,
        no |-> <<"E", "x", "e", "c", "=", "a", " ", " ", "-", "f", " ", " ", "%", "U">>],
       [kind |-> "exec",
        line |-> <<"E", "x", "e", "c", "=", "/", "o", "p", "t", "/", "a", "/", "a", " ", "/", "u", "s", "r", "/", "s", "h", "a", "r", "e", "/", "a", "/", "c">>,
        yes |-> <<"E", "x", "e", "c", "=", "~", "/", ".", "l", "o", "c", "a", "l", "/", "s", "h", "a", "r", "e", "/", "a", "/", "a", " ", "/", "u", "s", "r", "/", "s", "h", "a", "r", "e", "/", "a", "/", "c">>,
        no |-> <<"E", "x", "e", "c", "=", "~", "/", ".", "l", "o", "c", "a", "l", "/", "s", "h", "a", "r", "e", "/", "a", "/", "a", " ", "~", "/", ".", "l", "o", "c", "a", "l", "/", "s", "h", "a", "r", "e", "/", "a", "/", "c">>],
       [kind |-> "icon",
        line |-> <<"I", "c", "o", "n", "=", "a">>,
        yes |-> <<"I", "c", "o", "n", "=", "~", "/", ".", "l", "o", "c", "a", "l", "/", "s", "h", "a", "r", "e", "/", "i", "c", "o", "n", "s", "/", "a", ".", "p", "n", "g">>,
        no |-> <<"I", "c", "o", "n", "=", "a">>],
       [kind |-> "icon",
        line |-> <<"I", "c", "o", "n", "=", "a", ".", "p", "n", "g">>,
        yes |-> <<"I", "c", "o", "n", "=", "~", "/", ".", "l", "o", "c", "a", "l", "/", "s", "h", "a", "r", "e", "/", "i", "c", "o", "n", "s", "/", "a", ".", "p", "n", "g">>,
        no |-> <<"I", "c", "o", "n", "=", "a", ".", "p", "n", "g">>],
       [kind |-> "other",
        line |-> <<"T", "r", "y", "E", "x", "e", "c", "=", "/", "o", "p", "t", "/", "a", "/", "a">>,
        yes |-> <<"T", "r", "y", "E", "x", "e", "c", "=", "/", "o", "p", "t", "/", "a", "/", "a">>,
        no |-> <<"T", "r", "y", "E", "x", "e", "c", "=", "/", "o", "p", "t", "/", "a", "/", "a">>] >>

\* the entries tried: the header, the name and up to MaxEntryLines different
\* lines, in any order
RECURSIVE EntryBodies(_)
EntryBodies(n) ==
    IF n = 0 THEN { <<EntryHeader, NameEq \o <<"a">> >> }
    ELSE EntryBodies(n - 1)
         \cup {Append(p[1], EntryCases[p[2]].line) :
                   p \in {q \in EntryBodies(n - 1) \X DOMAIN EntryCases :
                              \A j \in 1..Len(q[1]) : q[1][j] # EntryCases[q[2]].line}}

\* a_7.deb: payload opt/a holding a program (or only a text file), the entry
\* a.desktop with the lines body, and with or without the icon a.png
EntryDeb(body, program, icon) ==
    Archive(<<"a", "_", "7">> \o DotDeb, "ok", TRUE, TRUE, TRUE,
            << DirEntry(OptDir), DirEntry(PathJoin(OptDir, <<"a">>)),
               FileEntry(PathJoin(OptDir, <<"a", "/", "a">>), program, << <<"1">> >>) >>
            \o ShareDirs
            \o << DesktopEntry(<<"a">>, body) >>
            \o (IF icon THEN <<FileEntry(PathJoin(Pixmaps, <<"a">> \o DotPng), FALSE, <<>>)>>
                ELSE <<>>),
            PlainProbe)

InitEntry ==
    /\ env \in Envs
    /\ fs = InitFS(env)
    /\ scratch = NoScratch
    /\ \E body \in EntryBodies(MaxEntryLines) : \E program \in BOOLEAN : \E icon \in BOOLEAN :
           objs = <<NewObj(EntryDeb(body, program, icon))>>
    /\ ops = 0
    /\ last = NoCall
    /\ prev = NoCall
    /\ InitWindow

NextEntry ==
    \/ ExtractCall
    \/ CleanupCall
    \/ \E opt \in InstallOptions : InstallCall(opt)

SpecEntry == InitEntry /\ [][NextEntry]_vars

\* the last call installed a DEB package directly and registered its entry
EntryInstall ==
    /\ PayloadInstall
    /\ last.opt[3]
    /\ last.ref[1].desktop_file # NoPath

\* the entry of the package as it is in the listing of the last call
PackagedEntry == last.t[Min({i \in 1..Len(last.t) : last.t[i].path = last.ref[1].desktop_file})].body

\* what a line of the entry is to become
ExpectedLine(line) ==
    IF \A k \in DOMAIN EntryCases : EntryCases[k].line # line THEN line
    ELSE LET c == EntryCases[Min({k \in DOMAIN EntryCases : EntryCases[k].line = line})]
         IN  IF c.kind = "exec"
                 THEN IF last.result.executable # NoPath THEN c.yes ELSE c.no
             ELSE IF c.kind = "icon"
                 THEN IF PathJoin(icons_dir, <<"a">> \o DotPng) \in DOMAIN fs THEN c.yes ELSE c.no
             ELSE line

\* the entry written at path p is the packaged one, line by line as expected
RewrittenAt(p) ==
    /\ p \in DOMAIN fs
    /\ Len(fs[p].body) = Len(PackagedEntry)
    /\ \A i \in 1..Len(PackagedEntry) : fs[p].body[i] = ExpectedLine(PackagedEntry[i])

\* C25: the entry written for a DEB package has the lines of the packaged
\* entry in their order; an Exec= line is the resolved executable followed by
\* the arguments of the original command when an executable was resolved,
\* and otherwise the original with /usr/share/ and /opt/ replaced by the
\* installation root; an Icon= line is the path of <name>.png or of the file
\* of that name in the icon directory when there is one; every other line is
\* as it was.
EntryRewritten ==
    EntryInstall =>
        /\ RewrittenAt(PathJoin(apps_dir, BaseName(last.ref[1].desktop_file)))
        /\ (last.opt[2] /\ env.desktop) =>
                RewrittenAt(PathJoin(desktop_dir, BaseName(last.ref[1].desktop_file)))

\* an entry with a command with arguments and an icon by name was rewritten
\* for a resolved executable and an installed icon
ExecAndIconRewritten ==
    /\ EntryInstall
    /\ last.result.executable # NoPath
    /\ PathJoin(icons_dir, <<"a">> \o DotPng) \in DOMAIN fs
    /\ Len(PackagedEntry) = 4
    /\ PackagedEntry[3] = EntryCases[2].line
    /\ PackagedEntry[4] = EntryCases[4].line
    /\ fs[PathJoin(apps_dir, <<"a">> \o DotDesktop)].body[3] = EntryCases[2].yes
    /\ fs[PathJoin(apps_dir, <<"a">> \o DotDesktop)].body[4] = EntryCases[4].yes

-----------------------------------------------------------------------------
(* Two installed apps *)

\* a_1.deb extracted into the first scratch directory
FirstExtracted == Extract(NewPackage(DebOpt), TmpName(1))

\* a home directory in which PackageInstaller.install has installed a_1.deb
\* (app id "a") with its menu entry and desktop shortcut
InitTwo ==
    /\ env \in Envs
    /\ fs = Install(<<FirstExtracted.pkg>>, FirstExtracted.tree, "DIRECT", TRUE, TRUE,
                    InitFS(env), env).fs
    /\ scratch = NoScratch
    /\ objs = <<>>
    /\ ops = 0
    /\ last = NoCall
    /\ prev = NoCall
    /\ InitWindow

\* a second app is installed and the first one uninstalled
NextTwo ==
    \/ \E arc \in {DebTwoNames, TgzPlain, TgzServer} : Construct(arc)
    \/ ExtractCall
    \/ CleanupCall
    \/ \E opt \in InstallOptions : InstallCall(opt)
    \/ UninstallCall(<<"a">>)

SpecTwo == InitTwo /\ [][NextTwo]_vars

\* C27: when app B was installed and then another installed app A is
\* uninstalled, everything the install of B created is still there.
OtherAppArtifactsKept ==
    ( /\ last.op = "uninstall" /\ DirectOk(prev)
      /\ prev.id # last.id
      /\ PathJoin(install_base, last.id) \in DOMAIN last.before )
    => \A p \in DOMAIN last.before \ DOMAIN prev.before : p \in DOMAIN fs

-----------------------------------------------------------------------------
(* class InstallerWindow: the main loop and its worker threads *)

\* DebCorrupt is unpacked by no tool; the others as in the engine
WindowArchives == {DebOpt, DebCorrupt, TgzPlain, ZipFile}

\* the test of _on_drop on the dropped path, letter case as written
DropAccepts(path) ==
    EndsWith(path, DotDeb) \/ EndsWith(path, DotTarGz) \/ EndsWith(path, DotTgz)

\* a worker thread: pc is "start" until its function has read self.package,
\* target the Package it then works on, tmp the directory extract() made
Thread(kind, n, pc, target, tmp, opt) ==
    [kind |-> kind, n |-> n, pc |-> pc, target |-> target, tmp |-> tmp, opt |-> opt]

\* a callback queued with GLib.idle_add; n tells which load or click started
\* the thread that queued it
Callback(cb, success, result, n) ==
    [cb |-> cb, success |-> success, result |-> result, n |-> n]

\* InstallerWindow._load_package
LoadPackage(arc) ==
    /\ loads < MaxLoads
    /\ objs' = Append(objs, NewObj(arc))
    /\ package' = Len(objs) + 1
    /\ stack' = "package"
    /\ threads' = threads \cup
           {Thread("extract", loads + 1, "start", 0, NoPath, <<"DIRECT", TRUE, TRUE>>)}
    /\ loads' = loads + 1
    /\ UNCHANGED <<env, fs, scratch, ops, last, prev, install_btn, idle>>

\* InstallerWindow._on_drop: the drop target is the window, whatever it shows
OnDrop(arc) == DropAccepts(arc.file) /\ LoadPackage(arc)

\* InstallerWindow._on_file_selected, from the button of the drop page; the
\* default filter of the dialog shows every file
OnFileSelected(arc) == stack = "drop" /\ LoadPackage(arc)

\* the extract thread up to its first external program: it reads
\* self.package, and extract() makes the scratch directory
ExtractBegin(th) ==
    /\ th.kind = "extract" /\ th.pc = "start"
    /\ IF package = 0
       THEN /\ threads' = threads \ {th}
            /\ UNCHANGED <<scratch, objs>>
       ELSE \E tmp \in {MkDTemp(scratch)} :
                /\ scratch' = (tmp :> <<>>) @@ scratch
                /\ objs' = [objs EXCEPT ![package] =
                               [@ EXCEPT !.pkg.extract_dir = tmp, !.extracts = @ + 1,
                                         !.dirs = @ \cup {tmp}]]
                /\ threads' = (threads \ {th}) \cup
                       {Thread("extract", th.n, "running", package, tmp, th.opt)}
    /\ UNCHANGED <<env, fs, ops, last, prev, package, stack, install_btn, idle, loads>>

\* the tree the metadata is read from when the thread that made tmp parses:
\* that of the directory the Package names at that time
SeenAt(sc, pkg, tmp) ==
    IF pkg.extract_dir = tmp /\ tmp \in DOMAIN sc THEN pkg.arc.tree
    ELSE IF pkg.extract_dir \in DOMAIN sc THEN sc[pkg.extract_dir]
    ELSE <<>>

\* the Package after extract() of the thread that made tmp, its metadata read
\* from tree seen; extract_dir keeps what it names now
ParsedAt(pkg, tmp, seen) ==
    [Extract([pkg EXCEPT !.arc.tree = seen], tmp).pkg
        EXCEPT !.arc = pkg.arc, !.extract_dir = pkg.extract_dir]

\* the rest of the extract thread: the tools unpack into the directory made
\* for them, the metadata is read from the directory the Package names now,
\* and _on_package_loaded is queued.  When the directory was removed meanwhile
\* the tools either were done before or fail.
ExtractEnd(th) ==
    /\ th.kind = "extract" /\ th.pc = "running"
    /\ \E obj \in {objs[th.target]} :
       \E gone \in {th.tmp \notin DOMAIN scratch} :
       \E o \in {Extract(obj.pkg, th.tmp)} :
       \E after \in {ParsedAt(obj.pkg, th.tmp, SeenAt(scratch, obj.pkg, th.tmp))} :
       \E ok \in (IF gone THEN {o.ok, FALSE} ELSE {o.ok}) :
           /\ scratch' = IF gone THEN scratch ELSE [scratch EXCEPT ![th.tmp] = o.tree]
           /\ objs' = [objs EXCEPT ![th.target] =
                          [@ EXCEPT !.pkg = IF ok = o.ok THEN after ELSE @,
                                    !.ok = IF ok THEN "true" ELSE "false",
                                    !.tools = o.tools]]
           /\ idle' = Append(idle, Callback("loaded", ok, NoResult, th.n))
    /\ threads' = threads \ {th}
    /\ UNCHANGED <<env, fs, ops, last, prev, package, stack, install_btn, loads>>

\* InstallerWindow._on_package_loaded at the head of the queue; with no
\* package the success branch raises and the callback ends there
OnPackageLoaded ==
    /\ idle # <<>> /\ Head(idle).cb = "loaded"
    /\ stack' = IF Head(idle).success THEN stack ELSE "drop"
    /\ idle' = Tail(idle)
    /\ UNCHANGED <<env, fs, scratch, objs, ops, last, prev, package, install_btn,
                   threads, loads>>

\* InstallerWindow._on_back
OnBack ==
    /\ stack = "package"
    /\ scratch' = IF package # 0 THEN Cleanup(scratch, objs[package].pkg) ELSE scratch
    /\ package' = 0
    /\ stack' = "drop"
    /\ UNCHANGED <<env, fs, objs, ops, last, prev, install_btn, threads, idle, loads>>

\* the mode _on_install passes on: a TAR_GZ package is installed directly
ChosenMode(pkg, mode) == IF pkg.package_type = "TAR_GZ" THEN "DIRECT" ELSE mode

\* InstallerWindow._on_install, clicked with the options opt chosen
OnInstall(opt) ==
    /\ stack = "package"
    /\ install_btn
    /\ ops < MaxClicks
    /\ IF package = 0
       THEN UNCHANGED <<install_btn, threads, ops>>
       ELSE /\ install_btn' = FALSE
            /\ threads' = threads \cup
                   {Thread("install", ops + 1, "start", 0, NoPath,
                           <<ChosenMode(objs[package].pkg, opt[1]), opt[2], opt[3]>>)}
            /\ ops' = ops + 1
    /\ UNCHANGED <<env, fs, scratch, objs, last, prev, package, stack, idle, loads>>

\* the install thread evaluating the arguments of installer.install: it
\* reads self.package
InstallBegin(th) ==
    /\ th.kind = "install" /\ th.pc = "start"
    /\ threads' = (threads \ {th}) \cup
           {Thread("install", th.n, "running", package, NoPath, th.opt)}
    /\ UNCHANGED <<env, fs, scratch, objs, ops, last, prev, package, stack, install_btn,
                   idle, loads>>

\* installer.install in the thread, and _on_install_complete queued
InstallEnd(th) ==
    /\ th.kind = "install" /\ th.pc = "running"
    /\ \E ref \in {IF th.target = 0 THEN <<>> ELSE <<objs[th.target].pkg>>} :
       \E t \in {IF ref = <<>> THEN <<>> ELSE ScratchOf(scratch, ref[1])} :
       \E inner \in {InstallDispatch(ref, t, th.opt[1], th.opt[2], th.opt[3], fs, env)} :
       \E o \in {Install(ref, t, th.opt[1], th.opt[2], th.opt[3], fs, env)} :
           /\ fs' = o.fs
           /\ last' = Call("install", FALSE, IF ref = <<>> THEN <<>> ELSE ref[1].name,
                           IF ref = <<>> THEN <<>> ELSE InstallAppId(ref[1]),
                           o.result.success, o.exc, inner.exc, fs, ref, t, th.opt, NoPath,
                           o.result, o.cmds)
           /\ idle' = Append(idle, Callback("complete", o.result.success, o.result, th.n))
    /\ prev' = last
    /\ threads' = threads \ {th}
    /\ UNCHANGED <<env, scratch, objs, ops, package, stack, install_btn, loads>>

\* InstallerWindow._on_install_complete at the head of the queue
OnInstallComplete ==
    /\ idle # <<>> /\ Head(idle).cb = "complete"
    /\ install_btn' = TRUE
    /\ IF Head(idle).success
       THEN /\ stack' = "complete"
            /\ scratch' = IF package # 0 THEN Cleanup(scratch, objs[package].pkg)
                          ELSE scratch
       ELSE UNCHANGED <<stack, scratch>>
    /\ idle' = Tail(idle)
    /\ UNCHANGED <<env, fs, objs, ops, last, prev, package, threads, loads>>

\* InstallerWindow._on_continue
OnContinue ==
    /\ stack = "complete"
    /\ package' = 0
    /\ stack' = "drop"
    /\ UNCHANGED <<env, fs, scratch, objs, ops, last, prev, install_btn, threads, idle,
                   loads>>

NextUI ==
    \/ \E arc \in WindowArchives : OnDrop(arc)
    \/ \E arc \in WindowArchives : OnFileSelected(arc)
    \/ \E th \in threads : ExtractBegin(th)
    \/ \E th \in threads : ExtractEnd(th)
    \/ OnPackageLoaded
    \/ OnBack
    \/ \E opt \in InstallOptions : OnInstall(opt)
    \/ \E th \in threads : InstallBegin(th)
    \/ \E th \in threads : InstallEnd(th)
    \/ OnInstallComplete
    \/ OnContinue

SpecUI == Init /\ [][NextUI]_vars

\* no worker thread is left and no callback is queued
Quiet == threads = {} /\ idle = <<>>

\* the scratch directory of the Package on the package page, extracted and
\* waiting for its install
HeldByViewedPackage(d) ==
    /\ package # 0 /\ stack = "package"
    /\ objs[package].pkg.extract_dir = d
    /\ objs[package].ok = "true"

\* C4: once the threads and callbacks of the workflow have run, no scratch
\* directory of an abandoned or finished Package remains: a directory that
\* still exists is that of the extracted Package on the package page.
NoScratchLeftBehind == Quiet => \A d \in DOMAIN scratch : HeldByViewedPackage(d)

\* the threads at work on the Package at position i
InFlight(i) == {th \in threads : th.pc = "running" /\ th.target = i}

\* C8: at most one extract or install is in flight on a Package at any time,
\* and extract() is run at most once on it.
OneOperationPerPackage ==
    \A i \in 1..Len(objs) : Cardinality(InFlight(i)) <= 1 /\ objs[i].extracts <= 1

\* C29: the extract thread works on the Package its load made, and when the
\* callback of a load is next in the queue that Package is still the
\* window's package.
LoadResultForOwnPackage ==
    /\ \A th \in threads :
           (th.kind = "extract" /\ th.pc = "running") => th.target = th.n
    /\ (idle # <<>> /\ Head(idle).cb = "loaded") => package = Head(idle).n

\* C30: while an install of a Package runs in its thread, the Package stays
\* the window's package and the scratch directory it was extracted into is
\* not deleted.
InstallKeepsPackage ==
    \A th \in threads :
        (th.kind = "install" /\ th.pc = "running" /\ th.target # 0) =>
            /\ package = th.target
            /\ objs[th.target].ok = "true" =>
                   objs[th.target].pkg.extract_dir \in DOMAIN scratch

=============================================================================
